---- MODULE Spec2Model ----
(***************************************************************************)
(* A model of the rate limiter and retry core of the repository:           *)
(*   src/common/rate_limiting.py  (async sliding-window RateLimiter)       *)
(*   src/common/retry_runner.py   (retry_with_simple_backoff and helpers)  *)
(* and of the thread-based RateLimiter variants of the agent modules:      *)
(*   src/cursor_prompt_preprocessor/agent.py, src/multi_agent_loop/agent.py *)
(*   src/potato_decison_with_human_in_the_loop/agent.py                    *)
(*                                                                         *)
(* Time is an integer clock.  For the rate limiter one tick is 0.01 s, the *)
(* epsilon the code adds to a window-exhaustion wait, so Epsilon is one    *)
(* tick and window_seconds is a number of ticks.                           *)
(***************************************************************************)
EXTENDS Integers, Sequences, FiniteSets, TLC

\* ------------------------------------------------------------------ bounds
NumTasks == 2
MaxTime == 6
MaxCallsBound == 2
MaxWindow == 2

\* The 0.01 s the code adds to a window wait (rate_limiting.py:54), in ticks.
Epsilon == 1

NumThreads == 2

Tasks == 1..NumTasks
Threads == 1..NumThreads
\* Arguments update_next_allowed_call_time is called with (ticks); negative
\* values are accepted by the code without validation.
Delays == {-1, 1, 2}

Max(a, b) == IF a >= b THEN a ELSE b

VARIABLES
    \* ---- RateLimiter fields (rate_limiting.py:22-26)
    max_calls,
    window_seconds,
    call_history,
    lock,                    \* 0: free, otherwise the task holding self.lock
    waiters,                 \* FIFO queue of tasks suspended in lock.acquire()
    next_allowed_call_time,
    \* ---- environment and per-task position
    now,                     \* time.time()
    pc,                      \* where each task is in wait_if_needed()
    wake,                    \* earliest time a sleeping task resumes
    \* ---- history variables
    admitted,                \* admission timestamps granted at now - window_seconds or later
    window_sleeps,           \* per task: sleeps at line 57 in its current or latest call
    \* ---- pre_model_rate_limit, per task
    wait_result,             \* how its call of wait_if_needed() ended:
                             \* "pending", "returned", "IndexError", "CancelledError"
    pre_model_result,        \* what the hook returned: "pending", "None",
                             \* "Content"; "CancelledError" when it did not return
    \* ---- handle_rate_limit (async): its last argument and return value
    llm_response,
    hook_result,             \* "pending", "None", "GenerateContentResponse"
    \* ---- the thread-based RateLimiter of the agent modules
    th_module,               \* which module's class and hooks are running
    th_history,              \* call_history / call_timestamps, deque(maxlen=max_calls)
    th_lock,                 \* 0: free or absent, otherwise the thread in "with self.lock"
    th_pc,                   \* where each thread is
    th_time,                 \* each thread's local current_time
    th_wake,                 \* earliest time a thread in time.sleep() resumes
    \* ---- history variables
    th_admitted,             \* timestamps appended at now - window_seconds or later
    th_hold_until,           \* end of the delay of the latest 429 a hook detected
    slept_async,             \* whether the latest sequential call slept, async limiter
    slept_thread,            \* the same for the thread-based limiter
    \* ---- retry_with_simple_backoff: arguments, locals, position
    max_retries,
    base_delay,              \* tenths of a second
    attempt,
    last_exception,
    rstate,                  \* "start", "calling", "sleeping", "returned", "raised"
    outcome,                 \* the value returned or the exception propagated
    \* ---- history variable
    trace,                   \* what func did and the sleeps taken, in order
    \* ---- is_429_error and extract_retry_delay called on their own
    error,                   \* the exception given to is_429_error
    is_429_result,           \* <<>> before the call, then the tuple returned
    extracted_delay,         \* <<>> before the call, then how the call of
                             \* extract_retry_delay ended
    \* ---- EnhancedRunner.run_async (history variables)
    emitted,                 \* the events the original runner produced, each
                             \* tagged with the attempt that was running
    yielded                  \* the events run_async has yielded to its consumer

rlVars == <<max_calls, window_seconds, call_history, lock, waiters,
            next_allowed_call_time, now, pc, wake, admitted, window_sleeps,
            wait_result, pre_model_result>>

hkVars == <<llm_response, hook_result>>

rtVars == <<max_retries, base_delay, attempt, last_exception, rstate,
            outcome, trace>>

thVars == <<th_module, th_history, th_lock, th_pc, th_time, th_wake,
            th_admitted, th_hold_until, slept_async, slept_thread>>

txVars == <<error, is_429_result, extracted_delay>>

erVars == <<emitted, yielded>>

vars == <<rlVars, rtVars, hkVars, thVars, txVars, erVars>>

\* last_exception = None
NoException == [origin |-> "none", call |-> 0, text |-> <<>>]

\* llm_response before handle_rate_limit has been given one.
NoResponse == [kind |-> "none", text |-> <<>>]

\* handle_rate_limit has not run.
HookNotStarted ==
    /\ llm_response = NoResponse
    /\ hook_result = "pending"

\* Neither is_429_error nor extract_retry_delay has been called on its own.
TextsNotStarted ==
    /\ error = NoException
    /\ is_429_result = <<>>
    /\ extracted_delay = <<>>

\* EnhancedRunner.run_async has not been called.
RunnerNotStarted ==
    /\ emitted = <<>>
    /\ yielded = <<>>

\* The thread-based limiter of a module, as constructed, with no thread in it.
ThreadLimiterInit(modules) ==
    /\ th_module \in modules
    /\ th_history = <<>>
    /\ th_lock = 0
    /\ th_pc = [t \in Threads |-> "idle"]
    /\ th_time = [t \in Threads |-> 0]
    /\ th_wake = [t \in Threads |-> 0]
    /\ th_admitted = <<>>
    /\ th_hold_until = 0
    /\ slept_async = FALSE
    /\ slept_thread = FALSE

ThreadsNotStarted == ThreadLimiterInit({"cursor_prompt_preprocessor"})

\* No call of retry_with_simple_backoff is in progress.
RetryNotStarted ==
    /\ max_retries = 0
    /\ base_delay = 0
    /\ attempt = 0
    /\ last_exception = NoException
    /\ rstate = "start"
    /\ outcome = NoException
    /\ trace = <<>>

\* ------------------------------------------------------- RateLimiter model

\* RateLimiter.__init__
RateLimiterInit(calls, window) ==
    /\ max_calls \in calls
    /\ window_seconds \in window
    /\ call_history = <<>>
    /\ lock = 0
    /\ waiters = <<>>
    /\ next_allowed_call_time = 0
    /\ window_sleeps = [t \in Tasks |-> 0]
    /\ now = 0
    /\ pc = [t \in Tasks |-> "idle"]
    /\ wake = [t \in Tasks |-> 0]
    /\ admitted = <<>>
    /\ wait_result = [t \in Tasks |-> "pending"]
    /\ pre_model_result = [t \in Tasks |-> "pending"]

\* A hook that answers None whatever became of wait_if_needed().
PreModelAlwaysNone(result) ==
    IF result = "pending" THEN "pending" ELSE "None"

\* pre_model_rate_limit (lines 80-90) around its call of wait_if_needed():
\* "return None" after a normal return; "except Exception" turns a failure
\* into the fallback Content; CancelledError is not an Exception and leaves
\* the hook uncaught.
PreModelResult(result) ==
    CASE result = "returned" -> "None"
      [] result = "IndexError" -> "Content"
      [] result = "CancelledError" -> "CancelledError"
      [] OTHER -> "pending"

\* The call of wait_if_needed() by task t ends as result (or is still pending).
Outcome(t, result) ==
    /\ wait_result' = [wait_result EXCEPT ![t] = result]
    /\ pre_model_result' =
           [pre_model_result EXCEPT ![t] = PreModelResult(result)]

\* A pruning that also drops the timestamp exactly window_seconds old.
RECURSIVE PopOldInclusive(_, _)
PopOldInclusive(history, current_time) ==
    IF history # <<>> /\ history[1] <= current_time - window_seconds
    THEN PopOldInclusive(Tail(history), current_time)
    ELSE history

\* No pruning at all.
PopNothing(history, current_time) == history

\* while self.call_history and self.call_history[0] < current_time - window:
\*     self.call_history.popleft()
RECURSIVE PopOld(_, _)
PopOld(history, current_time) ==
    IF history # <<>> /\ history[1] < current_time - window_seconds
    THEN PopOld(Tail(history), current_time)
    ELSE history

\* The wait without the 0.01 added.
WaitDurationNoEpsilon(history, current_time) ==
    (history[1] + window_seconds) - current_time

\* (oldest_call_in_window + self.window_seconds) - current_time + 0.01
WaitDuration(history, current_time) ==
    (history[1] + window_seconds) - current_time + Epsilon

\* A sleep that gives the lock away for its duration, as if the await stood
\* outside "async with self.lock".
SuspendUnlocked(t, position) ==
    IF waiters = <<>>
    THEN /\ lock' = 0
         /\ waiters' = waiters
         /\ pc' = [pc EXCEPT ![t] = position]
    ELSE /\ lock' = Head(waiters)
         /\ waiters' = Tail(waiters)
         /\ pc' = [pc EXCEPT ![t] = position, ![Head(waiters)] = "loop"]

\* await asyncio.sleep(...) at lines 41 and 57, inside "async with self.lock":
\* the task suspends and the lock stays with it.
Suspend(t, position) ==
    /\ pc' = [pc EXCEPT ![t] = position]
    /\ lock' = t
    /\ waiters' = waiters

\* A release that frees the lock but wakes nobody.
ReleaseWithoutWakeup(t) ==
    /\ lock' = 0
    /\ waiters' = waiters
    /\ pc' = [pc EXCEPT ![t] = "idle"]

\* Leaving "async with self.lock": the lock goes to the first waiter, if any.
ReleaseTo(t) ==
    IF waiters = <<>>
    THEN /\ lock' = 0
         /\ waiters' = waiters
         /\ pc' = [pc EXCEPT ![t] = "idle"]
    ELSE /\ lock' = Head(waiters)
         /\ waiters' = Tail(waiters)
         /\ pc' = [pc EXCEPT ![t] = "idle", ![Head(waiters)] = "loop"]

\* The sleeps at line 57 that the call task t is in has taken so far: none
\* when the task is only entering the loop.
SleepsBefore(t) ==
    IF pc[t] \in {"sleep_window", "sleep_explicit"} THEN window_sleeps[t] ELSE 0

\* Lines 44-57 with current_time already read: prune, then admit or sleep.
\* wait_if_needed() returning lets pre_model_rate_limit return None (line
\* 82).  With max_calls = 0 and nothing recorded, self.call_history[0] at
\* line 53 raises IndexError: the lock is released on the way out and
\* pre_model_rate_limit's "except Exception" returns the fallback Content.
PruneThenAdmitOrSleep(t, current_time) ==
    LET pruned == PopOld(call_history, current_time) IN
    IF Len(pruned) < max_calls
    THEN /\ call_history' = Append(pruned, current_time)
         /\ admitted' = Append(admitted, current_time)
         /\ wake' = [wake EXCEPT ![t] = 0]
         /\ window_sleeps' = [window_sleeps EXCEPT ![t] = SleepsBefore(t)]
         /\ Outcome(t, "returned")
         /\ ReleaseTo(t)
    ELSE IF pruned = <<>>
    THEN /\ call_history' = pruned
         /\ admitted' = admitted
         /\ wake' = [wake EXCEPT ![t] = 0]
         /\ window_sleeps' = [window_sleeps EXCEPT ![t] = SleepsBefore(t)]
         /\ Outcome(t, "IndexError")
         /\ ReleaseTo(t)
    ELSE /\ call_history' = pruned
         /\ admitted' = admitted
         /\ wake' = [wake EXCEPT ![t] = current_time + WaitDuration(pruned, current_time)]
         /\ window_sleeps' = [window_sleeps EXCEPT ![t] = SleepsBefore(t) + 1]
         /\ Outcome(t, "pending")
         /\ Suspend(t, "sleep_window")

\* One pass of the while-True body from line 35 up to its first await or break.
LoopBody(t) ==
    IF now < next_allowed_call_time
    THEN /\ wake' = [wake EXCEPT ![t] = now + (next_allowed_call_time - now)]
         /\ window_sleeps' = [window_sleeps EXCEPT ![t] = SleepsBefore(t)]
         /\ Outcome(t, "pending")
         /\ Suspend(t, "sleep_explicit")
         /\ UNCHANGED <<call_history, admitted>>
    ELSE PruneThenAdmitOrSleep(t, now)

\* A task runs pre_model_rate_limit, which calls wait_if_needed() (line 81).
\* With the lock free, "async with self.lock"
\* takes it without suspending and the first pass of the loop runs at once;
\* otherwise the task suspends in lock.acquire() behind the holder.
CallWaitIfNeeded(t) ==
    /\ pc[t] = "idle"
    /\ IF lock = 0
       THEN LoopBody(t)
       ELSE /\ waiters' = Append(waiters, t)
            /\ pc' = [pc EXCEPT ![t] = "acquire"]
            /\ Outcome(t, "pending")
            /\ window_sleeps' = [window_sleeps EXCEPT ![t] = 0]
            /\ UNCHANGED <<lock, call_history, wake, admitted>>
    /\ UNCHANGED <<max_calls, window_seconds, next_allowed_call_time, now>>
    /\ UNCHANGED <<rtVars, hkVars, thVars, txVars, erVars>>

\* The lock holder runs the loop body from the top: a waiter that was handed
\* the lock, or a task whose window sleep is over (line 58).
RunLoop(t) ==
    /\ lock = t
    /\ \/ pc[t] = "loop"
       \/ pc[t] = "sleep_window" /\ now >= wake[t]
    /\ LoopBody(t)
    /\ UNCHANGED <<max_calls, window_seconds, next_allowed_call_time, now>>
    /\ UNCHANGED <<rtVars, hkVars, thVars, txVars, erVars>>

\* asyncio.sleep(wait_for_explicit_delay) returns: line 42 re-reads the clock
\* and execution falls through to the pruning at line 45.
WakeFromExplicitDelay(t) ==
    /\ lock = t
    /\ pc[t] = "sleep_explicit"
    /\ now >= wake[t]
    /\ PruneThenAdmitOrSleep(t, now)
    /\ UNCHANGED <<max_calls, window_seconds, next_allowed_call_time, now>>
    /\ UNCHANGED <<rtVars, hkVars, thVars, txVars, erVars>>

\* An update that overwrites the pending hold instead of merging with max().
NewAllowedTimeOverwrite(previous, current_time, delay_seconds) ==
    current_time + delay_seconds

\* The magnitude of the delay taken, as if abs() were applied to it.
NewAllowedTimeMagnitude(previous, current_time, delay_seconds) ==
    Max(previous, current_time + Max(delay_seconds, 0 - delay_seconds))

\* new_allowed_time = time.time() + delay_seconds
\* self._next_allowed_call_time = max(self._next_allowed_call_time, new_allowed_time)
NewAllowedTime(previous, current_time, delay_seconds) ==
    Max(previous, current_time + delay_seconds)

update_next_allowed_call_time(delay_seconds) ==
    /\ next_allowed_call_time' =
           NewAllowedTime(next_allowed_call_time, now, delay_seconds)
    /\ UNCHANGED <<max_calls, window_seconds, window_sleeps, call_history, lock, waiters,
                   now, pc, wake, admitted, wait_result,
                   pre_model_result>>
    /\ UNCHANGED <<rtVars, hkVars, thVars, txVars, erVars>>

\* A cancellation after which the task still owns the lock, as a bare
\* lock.acquire() without try/finally would leave it.
CancelWithoutRelease(t) ==
    /\ pc[t] # "idle"
    /\ pc' = [pc EXCEPT ![t] = "idle"]
    /\ waiters' = SelectSeq(waiters, LAMBDA w : w # t)
    /\ wake' = [wake EXCEPT ![t] = 0]
    /\ Outcome(t, "CancelledError")
    /\ UNCHANGED <<max_calls, window_seconds, window_sleeps, call_history, lock,
                   next_allowed_call_time, now, admitted>>
    /\ UNCHANGED <<rtVars, hkVars, thVars, txVars, erVars>>

\* The task running pre_model_rate_limit is cancelled while it is suspended
\* in wait_if_needed().  CancelledError is raised at the await: a task queued
\* in lock.acquire() leaves the queue; a task inside "async with self.lock"
\* (line 33) releases the lock on the way out, also when it was handed the
\* lock and had not run yet.  CancelledError is no Exception, so line 83 does
\* not catch it and it leaves pre_model_rate_limit.
Cancel(t) ==
    /\ pc[t] # "idle"
    /\ IF pc[t] = "acquire"
       THEN /\ waiters' = SelectSeq(waiters, LAMBDA w : w # t)
            /\ pc' = [pc EXCEPT ![t] = "idle"]
            /\ lock' = lock
       ELSE ReleaseTo(t)
    /\ wake' = [wake EXCEPT ![t] = 0]
    /\ Outcome(t, "CancelledError")
    /\ UNCHANGED <<max_calls, window_seconds, window_sleeps, call_history,
                   next_allowed_call_time, now, admitted>>
    /\ UNCHANGED <<rtVars, hkVars, thVars, txVars, erVars>>

\* The admissions of the closed interval [current_time - window_seconds,
\* current_time].  An interval of that length ending before current_time was
\* complete, and counted, when its last admission was granted.
StillInWindow(granted, current_time) ==
    SelectSeq(granted, LAMBDA ts : ts >= current_time - window_seconds)

\* The clock advances.
Tick ==
    /\ now < MaxTime
    /\ now' = now + 1
    /\ admitted' = StillInWindow(admitted, now + 1)
    /\ UNCHANGED <<max_calls, window_seconds, window_sleeps, call_history, lock, waiters,
                   next_allowed_call_time, pc, wake, wait_result,
                   pre_model_result>>
    /\ UNCHANGED <<rtVars, hkVars, thVars, txVars, erVars>>

LimiterInit ==
    /\ RateLimiterInit(1..MaxCallsBound, 1..MaxWindow)
    /\ RetryNotStarted
    /\ HookNotStarted
    /\ RunnerNotStarted
    /\ TextsNotStarted
    /\ ThreadsNotStarted

LimiterNext ==
    \/ \E t \in Tasks : CallWaitIfNeeded(t)
    \/ \E t \in Tasks : RunLoop(t)
    \/ \E t \in Tasks : WakeFromExplicitDelay(t)
    \/ \E d \in Delays : update_next_allowed_call_time(d)
    \/ Tick

LimiterSpec == LimiterInit /\ [][LimiterNext]_vars

\* Calls arrive up to LiveHorizon; the clock then runs on for as long as a
\* sleeping task waits for it, so that every sleep of a call comes to its end.
LiveHorizon == 2

LiveCall(t) ==
    /\ now < LiveHorizon
    /\ CallWaitIfNeeded(t)

LiveTick ==
    /\ \/ now < LiveHorizon
       \/ \E t \in Tasks :
             pc[t] \in {"sleep_explicit", "sleep_window"} /\ wake[t] > now
    /\ now' = now + 1
    /\ admitted' = StillInWindow(admitted, now + 1)
    /\ UNCHANGED <<max_calls, window_seconds, window_sleeps, call_history, lock, waiters,
                   next_allowed_call_time, pc, wake, wait_result,
                   pre_model_result>>
    /\ UNCHANGED <<rtVars, hkVars, thVars, txVars, erVars>>

LiveNext ==
    \/ \E t \in Tasks : LiveCall(t)
    \/ \E t \in Tasks : RunLoop(t)
    \/ \E t \in Tasks : WakeFromExplicitDelay(t)
    \/ \E d \in Delays : update_next_allowed_call_time(d)
    \/ LiveTick

\* The event loop runs every task that is ready (it holds the lock and its
\* sleep, if any, is over), and time passes.  Nothing is assumed about when
\* callers arrive or when update_next_allowed_call_time is called.
LiveFairness ==
    /\ \A t \in Tasks : WF_vars(RunLoop(t))
    /\ \A t \in Tasks : WF_vars(WakeFromExplicitDelay(t))
    /\ WF_vars(LiveTick)

LiveSpec == LimiterInit /\ [][LiveNext]_vars /\ LiveFairness

\* The limiter with callers that may be cancelled while they wait.
CancelNext ==
    \/ \E t \in Tasks : CallWaitIfNeeded(t)
    \/ \E t \in Tasks : RunLoop(t)
    \/ \E t \in Tasks : WakeFromExplicitDelay(t)
    \/ \E t \in Tasks : Cancel(t)
    \/ \E d \in Delays : update_next_allowed_call_time(d)
    \/ Tick

CancelSpec == LimiterInit /\ [][CancelNext]_vars

\* ------------------------------------------------------ RateLimiter claims

\* A step in which wait_if_needed() grants admission at the current time.
AdmissionStep == admitted' = Append(admitted, now)

\* C1: sliding-window cap.  Every closed time interval of length
\* window_seconds holds at most max_calls admission timestamps, counted over
\* the admissions granted (admitted), not over what call_history still holds.
C1_SlidingWindowCap ==
    \A a \in (now - 2 * window_seconds)..now :
        Cardinality({i \in DOMAIN admitted :
                        admitted[i] >= a /\ admitted[i] <= a + window_seconds})
            <= max_calls

\* C1 witness: the cap is reached (more than one call in the window) and a
\* further caller is held back, sleeping out the full window.
C1_Witness ==
    /\ max_calls > 1
    /\ Len(admitted) = max_calls
    /\ \E t \in Tasks : pc[t] = "sleep_window"

\* C2: the explicit hold is honoured.  No step grants admission at a time
\* earlier than the value next_allowed_call_time has at that moment.
C2_HoldHonoured ==
    [][AdmissionStep => now >= next_allowed_call_time]_vars

\* C3: monotonic ratchet.  next_allowed_call_time never decreases; a step of
\* update_next_allowed_call_time(d) sets it to max(previous, now + d), so it
\* is left alone when now + d is below the pending hold; and no step of
\* wait_if_needed() (a step that moves a task) modifies it.
C3_MonotonicRatchet ==
    [][ /\ next_allowed_call_time' >= next_allowed_call_time
        /\ \A d \in Delays :
              update_next_allowed_call_time(d) =>
                  /\ next_allowed_call_time' = Max(next_allowed_call_time, now + d)
                  /\ (now + d < next_allowed_call_time =>
                         next_allowed_call_time' = next_allowed_call_time)
        /\ (pc' # pc => next_allowed_call_time' = next_allowed_call_time)
      ]_vars

\* C3 witness: a hold is pending beyond now + 1, so update(1) and update(-1)
\* are below it, while a caller sleeps on that hold.
C3_Witness ==
    /\ next_allowed_call_time > now + 1
    /\ \E t \in Tasks : pc[t] = "sleep_explicit"

\* The tasks inside "async with self.lock": handed the lock and about to run
\* the loop, or suspended in one of its two sleeps.
InCriticalSection ==
    {t \in Tasks : pc[t] \in {"loop", "sleep_explicit", "sleep_window"}}

\* C11: admission is serialized.  At most one task is inside the critical
\* section of wait_if_needed() at any time and that task holds the lock, also
\* while it sleeps; so concurrent callers never append past the cap: the
\* history never holds more than max_calls timestamps.
C11_AdmissionSerialized ==
    /\ Cardinality(InCriticalSection) <= 1
    /\ \A t \in InCriticalSection : lock = t
    /\ \A t \in Tasks : pc[t] = "acquire" => lock \notin {0, t}
    /\ Len(call_history) <= max_calls

\* C11 witness: the history is full, one task sleeps out the window inside
\* the critical section and another caller is kept waiting for the lock.
C11_Witness ==
    /\ Len(call_history) = max_calls
    /\ \E t, u \in Tasks : pc[t] = "sleep_window" /\ pc[u] = "acquire"

\* C12: shared-state discipline.  Every step that changes call_history or
\* next_allowed_call_time is a step of a task that holds the lock at that
\* moment (it held it before the step, or took the free lock in the step).
C12_MutationsUnderLock ==
    [][ (call_history' # call_history
            \/ next_allowed_call_time' # next_allowed_call_time)
        => \E t \in Tasks :
              /\ pc'[t] # pc[t]
              /\ lock = t \/ (lock = 0 /\ pc[t] = "idle")
      ]_vars

\* A step in which the call of task t ends without a return, by cancellation.
CancelledStep(t) ==
    /\ pc[t] # "idle"
    /\ pc'[t] = "idle"
    /\ wait_result'[t] = "CancelledError"

\* C13: cancellation safety.  When a task is cancelled while suspended in
\* wait_if_needed() (queued for the lock, handed the lock, or in either
\* sleep), afterwards it neither holds the lock nor stands in the queue, no
\* timestamp was recorded for its call, and the waiters are not stranded:
\* if it held the lock, the first waiter now holds it and is ready to run;
\* in every case a non-empty queue waits behind a live holder.
C13_CancellationSafety ==
    [][ \A t \in Tasks : CancelledStep(t) =>
          /\ lock' # t
          /\ \A i \in DOMAIN waiters' : waiters'[i] # t
          /\ call_history' = call_history
          /\ admitted' = admitted
          /\ (lock = t /\ waiters # <<>>) =>
                 /\ lock' = Head(waiters)
                 /\ pc'[Head(waiters)] = "loop"
                 /\ waiters' = Tail(waiters)
          /\ (lock = t /\ waiters = <<>>) => lock' = 0
          /\ lock # t => (lock' = lock /\ Len(waiters') = Len(waiters) - 1)
          /\ waiters' # <<>> =>
                 (lock' # 0 /\ pc'[lock'] \in {"loop", "sleep_explicit", "sleep_window"})
      ]_vars

\* C13 witness: the lock holder was cancelled with a caller queued behind
\* it; nothing was recorded, and the caller now holds the lock, ready to run.
C13_Witness ==
    \E t, u \in Tasks :
        /\ wait_result[t] = "CancelledError"
        /\ pc[t] = "idle"
        /\ lock = u
        /\ pc[u] = "loop"
        /\ call_history = <<>>

\* C14: liveness of admission.  With max_calls >= 1 and window_seconds > 0,
\* under fair scheduling and advancing time, every call of wait_if_needed()
\* eventually returns with admission granted, whatever the number of
\* concurrent callers and however often update_next_allowed_call_time runs.
C14_EveryCallAdmitted ==
    \A t \in Tasks :
        (pc[t] # "idle") ~> (pc[t] = "idle" /\ wait_result[t] = "returned")

\* C14 witness: a caller sleeps on an explicit hold that has been pushed
\* further out while it slept, and another caller queues behind it.
C14_Witness ==
    \E t, u \in Tasks :
        /\ pc[t] = "sleep_explicit"
        /\ next_allowed_call_time > wake[t]
        /\ pc[u] = "acquire"

\* ----------------------------------------------------------- error texts
\* A text is a sequence of one-character strings.  Delays of the retry runner
\* are counted in tenths of a second (5.0 s is 50).

CharAt(text, i) == IF i \in 1..Len(text) THEN text[i] ELSE ""

\* Whether pat occurs in text starting at index i.
OccursAt(text, i, pat) ==
    /\ i >= 1
    /\ i + Len(pat) - 1 <= Len(text)
    /\ \A k \in 1..Len(pat) : text[i + k - 1] = pat[k]

\* Python's  pat in text
Contains(text, pat) == \E i \in 1..Len(text) : OccursAt(text, i, pat)

LowerCase ==
    <<"a", "b", "c", "d", "e", "f", "g", "h", "i", "j", "k", "l", "m", "n", "o", "p", "q", "r", "s", "t", "u", "v", "w", "x", "y", "z">>
UpperCase ==
    <<"A", "B", "C", "D", "E", "F", "G", "H", "I", "J", "K", "L", "M", "N", "O", "P", "Q", "R", "S", "T", "U", "V", "W", "X", "Y", "Z">>

\* str.upper() on the ASCII letters
UpperChar(c) ==
    IF \E i \in 1..Len(LowerCase) : LowerCase[i] = c
    THEN UpperCase[CHOOSE i \in 1..Len(LowerCase) : LowerCase[i] = c]
    ELSE c

Upper(text) == [i \in 1..Len(text) |-> UpperChar(text[i])]

Digits == <<"0", "1", "2", "3", "4", "5", "6", "7", "8", "9">>
IsDigit(c) == \E i \in 1..Len(Digits) : Digits[i] = c
DigitValue(c) == (CHOOSE i \in 1..Len(Digits) : Digits[i] = c) - 1
IsSpace(c) == c \in {" ", "\t", "\n"}          \* \s
IsQuote(c) == c \in {"'", "\""}                \* ['\"]

\* The first index at or after i that holds no whitespace (the end of \s*).
RECURSIVE SkipSpaces(_, _)
SkipSpaces(text, i) ==
    IF IsSpace(CharAt(text, i)) THEN SkipSpaces(text, i + 1) ELSE i

\* The first index at or after i that holds no digit (the end of \d+ or \d*).
RECURSIVE SkipDigits(_, _)
SkipDigits(text, i) ==
    IF IsDigit(CharAt(text, i)) THEN SkipDigits(text, i + 1) ELSE i

\* The end of the longest match of  \d+(?:\.\d+)?  at i; i itself when no
\* digit stands at i.  The fraction is taken only when a digit follows the dot.
NumberEnd(text, i) ==
    LET e == SkipDigits(text, i) IN
    IF e > i /\ CharAt(text, e) = "." /\ IsDigit(CharAt(text, e + 1))
    THEN SkipDigits(text, e + 1)
    ELSE e

\* int() of the digits text[i..j-1]
RECURSIVE IntValue(_, _, _)
IntValue(text, i, j) ==
    IF j <= i THEN 0
    ELSE 10 * IntValue(text, i, j - 1) + DigitValue(text[j - 1])

\* float() of text[i..j-1], a match of \d+(?:\.\d+)?, in tenths.  The texts
\* of this model carry at most one fraction digit.
FloatValue(text, i, j) ==
    LET e == SkipDigits(text, i) IN
    IF e < j
    THEN 10 * IntValue(text, i, e) + DigitValue(text[e + 1])
    ELSE 10 * IntValue(text, i, e)

RetryDelayKey ==
    <<"r", "e", "t", "r", "y", "D", "e", "l", "a", "y">>
RetryAfterUpper ==
    <<"R", "e", "t", "r", "y", "-", "A", "f", "t", "e", "r">>

\* r"['\"]retryDelay['\"]:\s*['\"](\d+(?:\.\d+)?)s?['\"]" matched at i:
\* <<start, end>> of group 1, or <<>>.
QuotedPatternAt(text, i) ==
    LET q == SkipSpaces(text, i + Len(RetryDelayKey) + 3)
        e == NumberEnd(text, q + 1)
        c == IF CharAt(text, e) = "s" THEN e + 1 ELSE e
    IN  IF /\ IsQuote(CharAt(text, i))
           /\ OccursAt(text, i + 1, RetryDelayKey)
           /\ IsQuote(CharAt(text, i + Len(RetryDelayKey) + 1))
           /\ CharAt(text, i + Len(RetryDelayKey) + 2) = ":"
           /\ IsQuote(CharAt(text, q))
           /\ e > q + 1
           /\ IsQuote(CharAt(text, c))
        THEN <<q + 1, e>>
        ELSE <<>>

\* r"retryDelay:\s*(\d+(?:\.\d+)?)" matched at i
UnquotedPatternAt(text, i) ==
    LET d == SkipSpaces(text, i + Len(RetryDelayKey) + 1)
        e == NumberEnd(text, d)
    IN  IF /\ OccursAt(text, i, RetryDelayKey)
           /\ CharAt(text, i + Len(RetryDelayKey)) = ":"
           /\ e > d
        THEN <<d, e>>
        ELSE <<>>

\* r"[Rr]etry-[Aa]fter:\s*(\d+)" matched at i
RetryAfterPatternAt(text, i) ==
    LET d == SkipSpaces(text, i + Len(RetryAfterUpper) + 1)
        e == SkipDigits(text, d)
    IN  IF /\ i + Len(RetryAfterUpper) <= Len(text)
           /\ \A k \in 1..Len(RetryAfterUpper) :
                 \/ text[i + k - 1] = RetryAfterUpper[k]
                 \/ k \in {1, 7} /\ UpperChar(text[i + k - 1]) = RetryAfterUpper[k]
           /\ CharAt(text, i + Len(RetryAfterUpper)) = ":"
           /\ e > d
        THEN <<d, e>>
        ELSE <<>>

\* re.search: group 1 of the leftmost match, or <<>> when there is none.
SearchQuoted(text) ==
    IF \E i \in 1..Len(text) : QuotedPatternAt(text, i) # <<>>
    THEN QuotedPatternAt(text, CHOOSE i \in 1..Len(text) :
             /\ QuotedPatternAt(text, i) # <<>>
             /\ \A k \in 1..(i - 1) : QuotedPatternAt(text, k) = <<>>)
    ELSE <<>>

SearchUnquoted(text) ==
    IF \E i \in 1..Len(text) : UnquotedPatternAt(text, i) # <<>>
    THEN UnquotedPatternAt(text, CHOOSE i \in 1..Len(text) :
             /\ UnquotedPatternAt(text, i) # <<>>
             /\ \A k \in 1..(i - 1) : UnquotedPatternAt(text, k) = <<>>)
    ELSE <<>>

SearchRetryAfter(text) ==
    IF \E i \in 1..Len(text) : RetryAfterPatternAt(text, i) # <<>>
    THEN RetryAfterPatternAt(text, CHOOSE i \in 1..Len(text) :
             /\ RetryAfterPatternAt(text, i) # <<>>
             /\ \A k \in 1..(i - 1) : RetryAfterPatternAt(text, k) = <<>>)
    ELSE <<>>

\* return 5.0  # Default for 429  (retry_runner.py:30), in tenths
DefaultRetryDelay == 50

\* Taking the unquoted pattern before the quoted one.
ExtractUnquotedFirst(error_content) ==
    LET m1 == SearchQuoted(error_content)
        m2 == SearchUnquoted(error_content)
        m3 == SearchRetryAfter(error_content)
    IN  IF m2 # <<>> THEN FloatValue(error_content, m2[1], m2[2])
        ELSE IF m1 # <<>> THEN FloatValue(error_content, m1[1], m1[2])
        ELSE IF m3 # <<>> THEN FloatValue(error_content, m3[1], m3[2])
        ELSE DefaultRetryDelay

extract_retry_delay(error_content) ==
    LET m1 == SearchQuoted(error_content)
        m2 == SearchUnquoted(error_content)
        m3 == SearchRetryAfter(error_content)
    IN  IF m1 # <<>> THEN FloatValue(error_content, m1[1], m1[2])
        ELSE IF m2 # <<>> THEN FloatValue(error_content, m2[1], m2[2])
        ELSE IF m3 # <<>> THEN FloatValue(error_content, m3[1], m3[2])
        ELSE DefaultRetryDelay

Str429 ==
    <<"4", "2", "9">>
StrResourceExhausted ==
    <<"R", "E", "S", "O", "U", "R", "C", "E", "_", "E", "X", "H", "A", "U", "S", "T", "E", "D">>

\* The check without .upper().
Is429CaseSensitive(error_content) ==
    \/ Contains(error_content, Str429)
    \/ Contains(error_content, StrResourceExhausted)

\* is_429, the first component of is_429_error(error), on str(error)
is_429_error(error_content) ==
    \/ Contains(error_content, Str429)
    \/ Contains(Upper(error_content), StrResourceExhausted)

\* The error texts the wrapped operation raises in this model.
TextServerError ==
    <<"5", "0", "0", " ", "d", "o", "w", "n">>
TextPlain429 ==
    <<"4", "2", "9", " ", "b", "u", "s", "y">>
TextLowerExhausted ==
    <<"r", "e", "s", "o", "u", "r", "c", "e", "_", "e", "x", "h", "a", "u", "s", "t", "e", "d">>
TextQuotedDelay ==
    <<"4", "2", "9", " ", "'", "r", "e", "t", "r", "y", "D", "e", "l", "a", "y", "'", ":", " ", "'", "3", "s", "'">>
TextUnquotedNo429 ==
    <<"5", "0", "3", " ", "r", "e", "t", "r", "y", "D", "e", "l", "a", "y", ":", " ", "7">>
TextRetryAfter ==
    <<"4", "2", "9", " ", "R", "e", "t", "r", "y", "-", "A", "f", "t", "e", "r", ":", " ", "2">>

ErrorTexts == {TextServerError, TextPlain429, TextLowerExhausted,
               TextQuotedDelay, TextUnquotedNo429, TextRetryAfter}

\* ------------------------------------------------------ handle_rate_limit
\* The after-model hook of rate_limiting.py.  Its delays are in limiter ticks
\* of 0.01 s.

\* retry_delay_seconds = 5.0  (line 114)
HookDefaultDelay == 500
\* the 0.5 s added at line 130
HookBuffer == 50

TextNone ==
    <<"N", "o", "n", "e">>

\* Lines 103-109: the text the hook inspects.  A response is an exception
\* (str(llm_response)), an object with an error attribute (str of it; the
\* text <<>> stands for error = None, whose str is "None"), an object with
\* _raw_response.text, or an object with none of these (error_content stays
\* None, written <<>>).
ErrorContent(response) ==
    CASE response.kind = "exception" -> response.text
      [] response.kind = "error_attr" ->
            IF response.text = <<>> THEN TextNone ELSE response.text
      [] response.kind = "raw_text" -> response.text
      [] OTHER -> <<>>

\* A classification that takes every error text for a rate-limit error.
IsRateLimitContentAny(error_content) == error_content # <<>>

\* Line 111: error_content and ("429" in error_content or
\*           "RESOURCE_EXHAUSTED" in error_content.upper())
IsRateLimitContent(error_content) ==
    /\ error_content # <<>>
    /\ \/ Contains(error_content, Str429)
       \/ Contains(Upper(error_content), StrResourceExhausted)

\* The first index at or after i that does not hold the letter d.
RECURSIVE SkipLetterD(_, _)
SkipLetterD(text, i) ==
    IF CharAt(text, i) = "d" THEN SkipLetterD(text, i + 1) ELSE i

\* The pattern of line 120 matched at i: <<start, end>> of group 1, or <<>>.
\* The pattern is a raw string with doubled backslashes,
\*   r"['\"]retryDelay['\"]:\s*['\"](\\d+)(?:\\.\\d+)?s['\"]"
\* so group 1 is a backslash followed by letters d, and the optional group is
\* a backslash, any character but a newline, a backslash and letters d.
HookPatternAt(text, i) ==
    LET q == SkipSpaces(text, i + Len(RetryDelayKey) + 3)
        e == SkipLetterD(text, q + 2)
        f == SkipLetterD(text, e + 3)
        c == IF /\ CharAt(text, e) = "\\"
                /\ CharAt(text, e + 1) \notin {"", "\n"}
                /\ CharAt(text, e + 2) = "\\"
                /\ f > e + 3
             THEN f ELSE e
    IN  IF /\ IsQuote(CharAt(text, i))
           /\ OccursAt(text, i + 1, RetryDelayKey)
           /\ IsQuote(CharAt(text, i + Len(RetryDelayKey) + 1))
           /\ CharAt(text, i + Len(RetryDelayKey) + 2) = ":"
           /\ IsQuote(CharAt(text, q))
           /\ CharAt(text, q + 1) = "\\"
           /\ e > q + 2
           /\ CharAt(text, c) = "s"
           /\ IsQuote(CharAt(text, c + 1))
        THEN <<q + 1, e>>
        ELSE <<>>

\* re.search with the pattern of line 120
SearchHookPattern(text) ==
    IF \E i \in 1..Len(text) : HookPatternAt(text, i) # <<>>
    THEN HookPatternAt(text, CHOOSE i \in 1..Len(text) :
             /\ HookPatternAt(text, i) # <<>>
             /\ \A k \in 1..(i - 1) : HookPatternAt(text, k) = <<>>)
    ELSE <<>>

\* float(delay_match.group(1)) in ticks; -1 stands for the ValueError that
\* float() raises on a text that is not a number.
HookFloat(text, i, j) ==
    IF j > i /\ NumberEnd(text, i) = j
    THEN 10 * FloatValue(text, i, j)
    ELSE -1

\* Lines 114-127: retry_delay_seconds.  A ValueError from float() is caught
\* at line 126 and leaves the default in place.
HookRetryDelay(error_content) ==
    LET delay_match == SearchHookPattern(error_content) IN
    IF delay_match = <<>>
    THEN HookDefaultDelay
    ELSE LET parsed == HookFloat(error_content, delay_match[1], delay_match[2])
         IN  IF parsed = -1 THEN HookDefaultDelay ELSE parsed

\* The responses handed to the hook in this model.
TextHint24 ==
    <<"4", "2", "9", " ", "'", "r", "e", "t", "r", "y", "D", "e", "l", "a", "y", "'", ":", " ", "'", "2", "4", "s", "'">>
TextLiteralBackslashD ==
    <<"4", "2", "9", " ", "'", "r", "e", "t", "r", "y", "D", "e", "l", "a", "y", "'", ":", " ", "'", "\\", "d", "s", "'">>

HookResponses ==
    {[kind |-> "exception", text |-> TextHint24],
     [kind |-> "exception", text |-> TextLiteralBackslashD],
     [kind |-> "exception", text |-> TextPlain429],
     [kind |-> "exception", text |-> TextLowerExhausted],
     [kind |-> "exception", text |-> TextServerError],
     [kind |-> "error_attr", text |-> TextPlain429],
     [kind |-> "error_attr", text |-> <<>>],
     [kind |-> "raw_text", text |-> <<>>],
     [kind |-> "other", text |-> <<>>]}

\* Lines 103-127 are a function of the response alone; they are tabulated
\* here for the responses of the model: whether line 111 takes the response
\* for a rate-limit error, and the retry_delay_seconds it ends up with.
RateLimitResponses ==
    {r \in HookResponses : IsRateLimitContent(ErrorContent(r))}

RetryDelaySeconds ==
    [r \in HookResponses |-> HookRetryDelay(ErrorContent(r))]

\* handle_rate_limit(callback_context, llm_response), lines 92-149.  On a
\* rate-limit text it calls update_next_allowed_call_time(retry_delay_seconds
\* + 0.5) on the global limiter (line 130) and returns a response object
\* (lines 138-147); otherwise it returns None (line 149).
handle_rate_limit(response) ==
    /\ llm_response' = response
    /\ IF response \in RateLimitResponses
       THEN /\ next_allowed_call_time' =
                   NewAllowedTime(next_allowed_call_time, now,
                                  RetryDelaySeconds[response] + HookBuffer)
            /\ hook_result' = "GenerateContentResponse"
       ELSE /\ next_allowed_call_time' = next_allowed_call_time
            /\ hook_result' = "None"
    /\ UNCHANGED <<max_calls, window_seconds, window_sleeps, call_history, lock, waiters,
                   now, pc, wake, admitted, wait_result, pre_model_result>>
    /\ UNCHANGED <<rtVars, thVars, txVars, erVars>>

\* The limiter behind pre_model_rate_limit, constructed with any max_calls
\* from 0: with max_calls = 0 wait_if_needed() fails with IndexError.
PreHookInit ==
    /\ RateLimiterInit(0..MaxCallsBound, 1..MaxWindow)
    /\ RetryNotStarted
    /\ HookNotStarted
    /\ RunnerNotStarted
    /\ TextsNotStarted
    /\ ThreadsNotStarted

PreHookNext ==
    \/ \E t \in Tasks : CallWaitIfNeeded(t)
    \/ \E t \in Tasks : RunLoop(t)
    \/ \E t \in Tasks : WakeFromExplicitDelay(t)
    \/ \E d \in Delays : update_next_allowed_call_time(d)
    \/ Tick

PreHookSpec == PreHookInit /\ [][PreHookNext]_vars

\* The limiter with handle_rate_limit running after model calls, next to the
\* callers of wait_if_needed() and of update_next_allowed_call_time.
PostHookInit ==
    /\ RateLimiterInit({1}, {1})
    /\ RetryNotStarted
    /\ HookNotStarted
    /\ RunnerNotStarted
    /\ TextsNotStarted
    /\ ThreadsNotStarted

PostHookNext ==
    \/ \E t \in Tasks : CallWaitIfNeeded(t)
    \/ \E t \in Tasks : RunLoop(t)
    \/ \E t \in Tasks : WakeFromExplicitDelay(t)
    \/ \E d \in Delays : update_next_allowed_call_time(d)
    \/ \E r \in HookResponses : handle_rate_limit(r)
    \/ Tick

PostHookSpec == PostHookInit /\ [][PostHookNext]_vars

\* ------------------------------------------------------------- hook claims

\* The delay the error text of a response asks for, in ticks: the number of
\* a quoted retryDelay hint, the 5.0 s default when the text has none.
HintedDelay ==
    [r \in HookResponses |->
        LET hint == SearchQuoted(ErrorContent(r)) IN
        IF hint = <<>>
        THEN HookDefaultDelay
        ELSE 10 * FloatValue(ErrorContent(r), hint[1], hint[2])]

\* C15: the post-call hook uses the API-specified delay.  A step of
\* handle_rate_limit on a rate-limit text that embeds a quoted retryDelay
\* hint of n seconds ('retryDelay': '24s') moves the hold to at least
\* now + n + 0.5 s, as update_next_allowed_call_time(n + 0.5) does; on a
\* rate-limit text without a hint it uses the 5.0 s default.
C15_HookUsesApiDelay ==
    [][ \A r \in RateLimitResponses :
          handle_rate_limit(r) =>
              next_allowed_call_time' =
                  Max(next_allowed_call_time, now + HintedDelay[r] + HookBuffer)
      ]_vars

\* The responses that are no rate-limit error: no error text, or a text
\* with neither "429" nor, in any letter case, "RESOURCE_EXHAUSTED".
IgnoredResponses ==
    {r \in HookResponses :
        LET text == ErrorContent(r) IN
        \/ text = <<>>
        \/ /\ ~Contains(text, Str429)
           /\ ~Contains(Upper(text), StrResourceExhausted)}

\* C16: the post-call hook on other input.  When the error text holds
\* neither "429" nor, in any letter case, "RESOURCE_EXHAUSTED", or there is no
\* error text, a step of handle_rate_limit returns None and leaves
\* next_allowed_call_time and call_history unchanged.
C16_HookIgnoresOtherErrors ==
    [][ \A r \in IgnoredResponses :
          handle_rate_limit(r) =>
              /\ hook_result' = "None"
              /\ next_allowed_call_time' = next_allowed_call_time
              /\ call_history' = call_history
      ]_vars

\* C16 witness: a hold set by an earlier rate-limit response is pending, a
\* call is on record, and the hook has just returned None for a 500 error.
C16_Witness ==
    /\ hook_result = "None"
    /\ llm_response = [kind |-> "exception", text |-> TextServerError]
    /\ next_allowed_call_time > now
    /\ call_history # <<>>

\* C17: the pre-call hook never propagates a limiter failure.
\* pre_model_rate_limit has returned None exactly when its call of
\* wait_if_needed() returned, which is exactly a granted admission; when
\* wait_if_needed() raised an exception it has returned the fallback Content.
C17_PreHookNeverRaises ==
    [][ /\ \A t \in Tasks :
             /\ (pre_model_result'[t] = "None") <=> (wait_result'[t] = "returned")
             /\ (wait_result'[t] = "IndexError") => (pre_model_result'[t] = "Content")
             /\ (wait_result'[t] = "returned" /\ wait_result[t] # "returned")
                    => AdmissionStep
             /\ (wait_result'[t] = "IndexError" /\ wait_result[t] # "IndexError")
                    => (~AdmissionStep /\ pc'[t] = "idle" /\ lock' # t)
        /\ AdmissionStep =>
               \E t \in Tasks :
                   /\ pc'[t] = "idle"
                   /\ pre_model_result'[t] = "None"
                   /\ \A u \in Tasks \ {t} :
                          pre_model_result'[u] = pre_model_result[u]
      ]_vars

\* C17 witness: a limiter with max_calls = 0; one task's wait_if_needed()
\* raised IndexError while another waited for the lock, the hook returned the
\* fallback, and the lock went on to the waiter.
C17_Witness ==
    /\ max_calls = 0
    /\ \E t, u \in Tasks :
          /\ pre_model_result[t] = "Content"
          /\ pc[t] = "idle"
          /\ lock = u

\* ------------------------------------------------ retry_with_simple_backoff
\* bounds of the arguments
MaxRetries == 2
BaseDelays == {0, 10, 20}

\* The exception object that invocation number call of func raises.
FuncError(call, text) == [origin |-> "func", call |-> call, text |-> text]

\* What "raise None" raises: TypeError (exceptions must derive from
\* BaseException), made by the raise statement, not by func.
RaiseNoneError == [origin |-> "raise", call |-> 0, text |-> <<"T", "y", "p", "e", "E", "r", "r", "o", "r">>]

\* The statement  raise last_exception  (retry_runner.py:113)
Raise(exception) ==
    IF exception = NoException THEN RaiseNoneError ELSE exception

RetryInit ==
    /\ RateLimiterInit({1}, {1})
    /\ HookNotStarted
    /\ RunnerNotStarted
    /\ TextsNotStarted
    /\ ThreadsNotStarted
    /\ max_retries \in -1..MaxRetries      \* a negative value empties the range
    /\ base_delay \in BaseDelays
    /\ attempt = 0
    /\ last_exception = NoException
    /\ rstate = "start"
    /\ outcome = NoException
    /\ trace = <<>>

\* range(max_retries): one value too few.
AttemptRangeShort == 0..(max_retries - 1)

\* range(max_retries + 1)
AttemptRange == 0..max_retries

\* Keeping the first failure instead of the latest.
RememberFirst(previous, e) == IF previous = NoException THEN e ELSE previous

\* last_exception = e
Remember(previous, e) == e

\* Giving up one attempt early.
IsLastAttemptEarly(a) == a >= max_retries - 1

\* No check for the last attempt: every failure goes on to the sleep.
IsLastAttemptNever(a) == a < 0

\* if attempt >= max_retries: ... break
IsLastAttempt(a) == a >= max_retries

\* 2 * attempt where the code has 2 ** attempt.
BackoffLinear(a) == base_delay * (2 * a)

\* delay = base_delay * (2**attempt)
Backoff(a) == base_delay * (2 ^ a)

\* random.uniform(0, delay * 0.1): the values on the grid of tenths
Jitter(delay) == 0..(delay \div 10)

\* Jitter added on the rate-limit branch too.
RetryDelayAlwaysJittered(error_content, a, jitter) ==
    IF is_429_error(error_content)
    THEN extract_retry_delay(error_content) + jitter
    ELSE Backoff(a) + jitter

\* Lines 91-108: the delay slept after a failure that is not the last.
RetryDelay(error_content, a, jitter) ==
    IF is_429_error(error_content)
    THEN extract_retry_delay(error_content)
    ELSE Backoff(a) + jitter

Event(kind, a, text, delay) ==
    [kind |-> kind, attempt |-> a, text |-> text, delay |-> delay]

\* The for statement takes its first value, or finds the range empty and
\* control reaches line 113.
StartRetry ==
    /\ rstate = "start"
    /\ IF 0 \in AttemptRange
       THEN /\ rstate' = "calling"
            /\ outcome' = outcome
       ELSE /\ rstate' = "raised"
            /\ outcome' = Raise(last_exception)
    /\ UNCHANGED <<max_retries, base_delay, attempt, last_exception, trace>>
    /\ UNCHANGED <<rlVars, hkVars, thVars, txVars, erVars>>

\* A success that is recorded but does not leave the loop.
FuncReturnsKeepsLooping ==
    /\ rstate = "calling"
    /\ trace' = Append(trace, Event("return", attempt, <<>>, 0))
    /\ outcome' = [origin |-> "result", call |-> attempt, text |-> <<>>]
    /\ IF attempt + 1 \in AttemptRange
       THEN attempt' = attempt + 1 /\ rstate' = "calling"
       ELSE attempt' = attempt /\ rstate' = "returned"
    /\ UNCHANGED <<max_retries, base_delay, last_exception>>
    /\ UNCHANGED <<rlVars, hkVars, thVars, txVars, erVars>>

\* result = await func(*args, **kwargs); return result
FuncReturns ==
    /\ rstate = "calling"
    /\ trace' = Append(trace, Event("return", attempt, <<>>, 0))
    /\ outcome' = [origin |-> "result", call |-> attempt, text |-> <<>>]
    /\ rstate' = "returned"
    /\ UNCHANGED <<max_retries, base_delay, attempt, last_exception>>
    /\ UNCHANGED <<rlVars, hkVars, thVars, txVars, erVars>>

\* func raises: the except block, up to the break (and line 113) or up to
\* the start of asyncio.sleep(delay).
FuncRaises(text, jitter) ==
    /\ rstate = "calling"
    /\ LET e == FuncError(attempt, text) IN
       /\ last_exception' = Remember(last_exception, e)
       /\ IF IsLastAttempt(attempt)
          THEN /\ trace' = Append(trace, Event("raise", attempt, text, 0))
               /\ rstate' = "raised"
               /\ outcome' = Raise(last_exception')
          ELSE /\ jitter \in Jitter(Backoff(attempt))
               /\ trace' = trace \o
                     <<Event("raise", attempt, text, 0),
                       Event("sleep", attempt, <<>>, RetryDelay(text, attempt, jitter))>>
               /\ rstate' = "sleeping"
               /\ outcome' = outcome
    /\ UNCHANGED <<max_retries, base_delay, attempt>>
    /\ UNCHANGED <<rlVars, hkVars, thVars, txVars, erVars>>

\* asyncio.sleep(delay) returns and the for statement takes its next value,
\* or finds the range exhausted and control reaches line 113.
SleepReturns ==
    /\ rstate = "sleeping"
    /\ IF attempt + 1 \in AttemptRange
       THEN /\ attempt' = attempt + 1
            /\ rstate' = "calling"
            /\ outcome' = outcome
       ELSE /\ attempt' = attempt
            /\ rstate' = "raised"
            /\ outcome' = Raise(last_exception)
    /\ UNCHANGED <<max_retries, base_delay, last_exception, trace>>
    /\ UNCHANGED <<rlVars, hkVars, thVars, txVars, erVars>>

RetryNext ==
    \/ StartRetry
    \/ FuncReturns
    \/ \E text \in ErrorTexts, jitter \in Jitter(Backoff(MaxRetries)) :
           FuncRaises(text, jitter)
    \/ SleepReturns

RetrySpec == RetryInit /\ [][RetryNext]_vars

\* ------------------------------------------- retry_with_simple_backoff claims

\* The positions of trace at which func was invoked.
Invocations == {i \in DOMAIN trace : trace[i].kind \in {"return", "raise"}}
Failures == {i \in DOMAIN trace : trace[i].kind = "raise"}
\* The failures that were not the last permitted attempt.
RetriedFailures == {i \in Failures : trace[i].attempt < max_retries}
Finished == rstate \in {"returned", "raised"}

\* C4: retry bounding.  For max_retries >= 0 func is invoked at most
\* max_retries + 1 times, and exactly max_retries + 1 times in a finished
\* run in which every invocation raised (once when max_retries = 0).
C4_RetryBounding ==
    max_retries >= 0 =>
        /\ Cardinality(Invocations) <= max_retries + 1
        /\ (Finished /\ Invocations = Failures) =>
               Cardinality(Invocations) = max_retries + 1

\* C4 witness: a run with retries in which every invocation raised.
C4_Witness ==
    /\ rstate = "raised"
    /\ max_retries >= 1
    /\ Cardinality(Failures) = max_retries + 1

\* C5: on exhaustion (the run ends raising after the last permitted attempt
\* failed) the exception propagated is the one raised by invocation number
\* max_retries itself, with its text, whatever the earlier attempts raised.
C5_LastExceptionPropagated ==
    (rstate = "raised" /\ trace # <<>>) =>
        /\ trace[Len(trace)].kind = "raise"
        /\ trace[Len(trace)].attempt = max_retries
        /\ outcome = FuncError(max_retries, trace[Len(trace)].text)

\* C5 witness: exhaustion after an earlier attempt raised a different error.
C5_Witness ==
    /\ rstate = "raised"
    /\ \E i \in Failures : trace[i].text # outcome.text /\ i < Len(trace)

\* C6: success short-circuit.  An invocation that returns is the last thing
\* the run does: no invocation and no sleep follows it, the run has returned
\* and its value is that invocation's result.
C6_SuccessShortCircuit ==
    /\ \A i \in DOMAIN trace :
           trace[i].kind = "return" =>
               /\ i = Len(trace)
               /\ rstate = "returned"
               /\ outcome = [origin |-> "result", call |-> trace[i].attempt,
                             text |-> <<>>]
    /\ rstate = "returned" => trace # <<>> /\ trace[Len(trace)].kind = "return"

\* C6 witness: a success after two failures.
C6_Witness ==
    /\ rstate = "returned"
    /\ Cardinality(Failures) >= 2

\* C7: only the last permitted attempt is terminal (max_retries >= 0, so
\* that the attempt with index max_retries exists).  A failure of an attempt
\* with index < max_retries, of either kind, is followed by a sleep and then
\* by the next attempt; an exception propagates only from a failure of the
\* attempt with index max_retries.
C7_OnlyLastAttemptTerminal ==
    max_retries >= 0 =>
        /\ \A i \in RetriedFailures :
               /\ i < Len(trace)
               /\ trace[i + 1].kind = "sleep"
               /\ i + 1 = Len(trace) =>
                      \/ rstate = "sleeping"
                      \/ rstate = "calling" /\ attempt = trace[i].attempt + 1
               /\ i + 1 < Len(trace) =>
                      /\ trace[i + 2].kind \in {"return", "raise"}
                      /\ trace[i + 2].attempt = trace[i].attempt + 1
        /\ rstate = "raised" =>
               /\ trace # <<>>
               /\ trace[Len(trace)].kind = "raise"
               /\ trace[Len(trace)].attempt = max_retries

\* C7 witness: a rate-limit failure and a failure of another kind were both
\* retried, and the run ended raising.
C7_Witness ==
    /\ rstate = "raised"
    /\ \E i \in RetriedFailures : is_429_error(trace[i].text)
    /\ \E i \in RetriedFailures : ~is_429_error(trace[i].text)

\* C8: every exception that propagates out of retry_with_simple_backoff was
\* raised by an invocation of func (the last failure), for every integer
\* max_retries, 0 and negative values included.
C8_OnlyRealFailuresPropagate ==
    rstate = "raised" =>
        /\ outcome.origin = "func"
        /\ trace # <<>>
        /\ trace[Len(trace)].kind = "raise"
        /\ outcome = FuncError(trace[Len(trace)].attempt, trace[Len(trace)].text)

\* C9: 429 delay precedence.  After a retried failure classified as
\* rate-limit the sleep is exactly extract_retry_delay of the error text: the
\* delay the text specifies (3 s, 2 s) or the 5.0 default, with no jitter,
\* whatever the attempt index and base_delay.
C9_RateLimitDelay ==
    \A i \in RetriedFailures :
        is_429_error(trace[i].text) =>
            /\ trace[i + 1].kind = "sleep"
            /\ trace[i + 1].delay = extract_retry_delay(trace[i].text)
            /\ trace[i].text = TextQuotedDelay => trace[i + 1].delay = 30
            /\ trace[i].text = TextRetryAfter => trace[i + 1].delay = 20
            /\ trace[i].text \in {TextPlain429, TextLowerExhausted} =>
                   trace[i + 1].delay = DefaultRetryDelay

\* C9 witness: a rate-limit failure carrying a delay, retried at an attempt
\* index above 0 under a positive base_delay.
C9_Witness ==
    \E i \in RetriedFailures :
        /\ trace[i].text = TextQuotedDelay
        /\ trace[i].attempt >= 1
        /\ base_delay > 0

\* The retried failures that took the exponential-backoff branch.
BackedOff == {i \in RetriedFailures : ~is_429_error(trace[i].text)}

\* C10: exponential backoff bounds.  After a retried failure of attempt a
\* that is not rate-limit the sleep d satisfies
\* base_delay * 2^a <= d <= 1.1 * base_delay * 2^a, and for base_delay > 0
\* the backoff sleeps of consecutive such failures strictly increase.
C10_BackoffBounds ==
    /\ \A i \in BackedOff :
           /\ trace[i + 1].kind = "sleep"
           /\ base_delay * (2 ^ trace[i].attempt) <= trace[i + 1].delay
           /\ 10 * trace[i + 1].delay <= 11 * base_delay * (2 ^ trace[i].attempt)
    /\ base_delay > 0 =>
           \A i \in BackedOff :
               (i + 2) \in BackedOff => trace[i + 1].delay < trace[i + 3].delay

\* C10 witness: two consecutive backoff sleeps, the first with the largest
\* jitter and the second with none.
C10_Witness ==
    \E i \in BackedOff :
        /\ (i + 2) \in BackedOff
        /\ base_delay > 0
        /\ 10 * trace[i + 1].delay = 11 * base_delay * (2 ^ trace[i].attempt)
        /\ trace[i + 3].delay = base_delay * (2 ^ trace[i + 2].attempt)

\* ------------------------------------------- thread-based RateLimiter model
\* The synchronous RateLimiter of cursor_prompt_preprocessor/agent.py (lines
\* 87-123; the classes and hooks of potato_decison_with_human_in_the_loop and
\* test_poc_agent are the same text) and of multi_agent_loop/agent.py (lines
\* 9-56), called from threads.  The clock and the parameters max_calls and
\* window_seconds are those of the async model, one tick being 0.01 s; the
\* source fixes the window of these classes at 60 s.

ThreadMaxTime == 3

\* "+ 0.1  # Add a small buffer" (cursor_prompt_preprocessor/agent.py:116)
SmallBuffer == 10

\* Whether the module's class has self.lock = threading.RLock();
\* multi_agent_loop's class has no lock.
HasLock(module) == module # "multi_agent_loop"

\* wait_time = self.window_seconds - time_since_oldest (+ 0.1 with the lock)
ThreadWaitTime(module, history, current_time) ==
    window_seconds - (current_time - history[1])
        + (IF HasLock(module) THEN SmallBuffer ELSE 0)

\* The branch a call takes once current_time is read: append at once, sleep
\* first, or replace the oldest timestamp at once.
ThreadDecision(history, current_time) ==
    IF Len(history) < max_calls THEN "append"
    ELSE IF current_time - history[1] < window_seconds THEN "sleep"
    ELSE "replace"

\* deque(maxlen=max_calls).append(timestamp): a full deque drops its oldest.
AppendMaxlen(history, timestamp) ==
    IF Len(history) >= max_calls
    THEN Append(Tail(history), timestamp)
    ELSE Append(history, timestamp)

\* Leaving "with self.lock", where the class has one.
ThreadRelease(t) ==
    th_lock' = IF th_lock = t THEN 0 ELSE th_lock

\* From reading current_time to the first append, popleft or sleep.
ThreadCheck(t) ==
    LET decision == ThreadDecision(th_history, now) IN
    /\ th_time' = [th_time EXCEPT ![t] = now]
    /\ IF decision = "sleep"
       THEN /\ th_pc' = [th_pc EXCEPT ![t] = "sleep"]
            /\ th_wake' = [th_wake EXCEPT ![t] =
                              now + ThreadWaitTime(th_module, th_history, now)]
       ELSE /\ th_pc' = [th_pc EXCEPT ![t] = decision]
            /\ th_wake' = th_wake

\* A thread calls wait_if_needed().  With a lock that another thread holds
\* it blocks; otherwise it takes the lock, if there is one, and goes on.
ThreadCallWaitIfNeeded(t) ==
    /\ th_pc[t] = "idle"
    /\ IF HasLock(th_module) /\ th_lock # 0
       THEN /\ th_pc' = [th_pc EXCEPT ![t] = "acquire"]
            /\ UNCHANGED <<th_lock, th_time, th_wake>>
       ELSE /\ th_lock' = IF HasLock(th_module) THEN t ELSE 0
            /\ ThreadCheck(t)
    /\ UNCHANGED <<th_module, th_history, th_admitted, th_hold_until,
                   slept_async, slept_thread>>
    /\ UNCHANGED <<rlVars, rtVars, hkVars, txVars, erVars>>

\* A blocked thread gets the lock that was released.
ThreadAcquire(t) ==
    /\ th_pc[t] = "acquire"
    /\ th_lock = 0
    /\ th_lock' = t
    /\ ThreadCheck(t)
    /\ UNCHANGED <<th_module, th_history, th_admitted, th_hold_until,
                   slept_async, slept_thread>>
    /\ UNCHANGED <<rlVars, rtVars, hkVars, txVars, erVars>>

\* self.call_history.popleft().  On a deque that another thread has emptied
\* in the meantime it raises IndexError, which ends the call.
ThreadPopleft(t) ==
    /\ th_pc[t] = "replace"
    /\ IF th_history # <<>>
       THEN /\ th_history' = Tail(th_history)
            /\ th_pc' = [th_pc EXCEPT ![t] = "append"]
            /\ th_lock' = th_lock
       ELSE /\ th_history' = th_history
            /\ th_pc' = [th_pc EXCEPT ![t] = "idle"]
            /\ ThreadRelease(t)
    /\ UNCHANGED <<th_module, th_time, th_wake, th_admitted,
                   th_hold_until, slept_async, slept_thread>>
    /\ UNCHANGED <<rlVars, rtVars, hkVars, txVars, erVars>>

\* self.call_history.append(current_time) and the return: the call is admitted.
ThreadAppend(t) ==
    /\ th_pc[t] = "append"
    /\ th_history' = AppendMaxlen(th_history, th_time[t])
    /\ th_admitted' = Append(th_admitted, th_time[t])
    /\ th_pc' = [th_pc EXCEPT ![t] = "idle"]
    /\ th_time' = [th_time EXCEPT ![t] = 0]
    /\ ThreadRelease(t)
    /\ UNCHANGED <<th_module, th_wake, th_hold_until,
                   slept_async, slept_thread>>
    /\ UNCHANGED <<rlVars, rtVars, hkVars, txVars, erVars>>

\* time.sleep() returns.  In wait_if_needed() current_time is read again and
\* the oldest timestamp is replaced next; in handle_rate_limit the hook returns.
ThreadSleepReturns(t) ==
    /\ th_pc[t] \in {"sleep", "hook_sleep"}
    /\ now >= th_wake[t]
    /\ IF th_pc[t] = "sleep"
       THEN /\ th_pc' = [th_pc EXCEPT ![t] = "replace"]
            /\ th_time' = [th_time EXCEPT ![t] = now]
       ELSE /\ th_pc' = [th_pc EXCEPT ![t] = "idle"]
            /\ th_time' = th_time
    /\ th_wake' = [th_wake EXCEPT ![t] = 0]
    /\ UNCHANGED <<th_module, th_history, th_lock, th_admitted, th_hold_until,
                   slept_async, slept_thread>>
    /\ UNCHANGED <<rlVars, rtVars, hkVars, txVars, erVars>>

\* retry_delay = 5  # Default 5 seconds  (cursor_prompt_preprocessor/agent.py:145)
ThreadDefaultDelay == 5

ThreadDelayPrefix ==
    <<"'", "r", "e", "t", "r", "y", "D", "e", "l", "a", "y", "'", ":", " ", "'">>

\* r"'retryDelay': '(\d+)s'" matched at i: <<start, end>> of group 1, or <<>>.
ThreadPatternAt(text, i) ==
    LET d == i + Len(ThreadDelayPrefix)
        e == SkipDigits(text, d)
    IN  IF /\ OccursAt(text, i, ThreadDelayPrefix)
           /\ e > d
           /\ CharAt(text, e) = "s"
           /\ CharAt(text, e + 1) = "'"
        THEN <<d, e>>
        ELSE <<>>

SearchThreadPattern(text) ==
    IF \E i \in 1..Len(text) : ThreadPatternAt(text, i) # <<>>
    THEN ThreadPatternAt(text, CHOOSE i \in 1..Len(text) :
             /\ ThreadPatternAt(text, i) # <<>>
             /\ \A k \in 1..(i - 1) : ThreadPatternAt(text, k) = <<>>)
    ELSE <<>>

\* error = getattr(llm_response, 'error', None), as str(error); <<>> when the
\* response has no error attribute or the attribute is None.
ThreadErrorText(response) ==
    IF response.kind = "error_attr" THEN response.text ELSE <<>>

\* if error and "429" in str(error)
ThreadDetects429(response) ==
    /\ ThreadErrorText(response) # <<>>
    /\ Contains(ThreadErrorText(response), Str429)

\* Lines 145-148: retry_delay in seconds.
ThreadRetryDelay(response) ==
    LET text == ThreadErrorText(response)
        delay_match == SearchThreadPattern(text)
    IN  IF delay_match = <<>>
        THEN ThreadDefaultDelay
        ELSE IntValue(text, delay_match[1], delay_match[2])

ThreadResponses ==
    {[kind |-> "error_attr", text |-> TextQuotedDelay],
     [kind |-> "error_attr", text |-> TextPlain429],
     [kind |-> "error_attr", text |-> TextServerError],
     [kind |-> "error_attr", text |-> <<>>],
     [kind |-> "exception", text |-> TextPlain429]}

\* The two functions above, tabulated for the responses of the model.
Detected429 == {r \in ThreadResponses : ThreadDetects429(r)}

\* time.sleep(retry_delay + 1), in ticks
ThreadHookSleep == [r \in ThreadResponses |-> 100 * (ThreadRetryDelay(r) + 1)]

\* handle_rate_limit(callback_context, llm_response) of the modules that have
\* it, run by a thread after its model call (lines 129-162).  On a 429 it
\* sleeps retry_delay + 1 seconds in the calling thread and returns a
\* Content; otherwise it returns None at once.  It does not touch the limiter.
ThreadHandleRateLimit(t, response) ==
    /\ HasLock(th_module)
    /\ th_pc[t] = "idle"
    /\ IF response \in Detected429
       THEN /\ th_pc' = [th_pc EXCEPT ![t] = "hook_sleep"]
            /\ th_wake' = [th_wake EXCEPT ![t] = now + ThreadHookSleep[response]]
            /\ th_hold_until' =
                   Max(th_hold_until, now + ThreadHookSleep[response])
       ELSE UNCHANGED <<th_pc, th_wake, th_hold_until>>
    /\ UNCHANGED <<th_module, th_history, th_lock, th_time, th_admitted,
                   slept_async, slept_thread>>
    /\ UNCHANGED <<rlVars, rtVars, hkVars, txVars, erVars>>

\* The timestamps a window ending at current_time or later can still hold.
ThreadStillInWindow(granted, current_time) ==
    SelectSeq(granted, LAMBDA ts : ts >= current_time - window_seconds)

\* The times the clock moves to next: one tick on, or straight to the end
\* of a sleep in progress.
ThreadClockTargets ==
    {now + 1} \cup {th_wake[t] : t \in {u \in Threads :
                        th_pc[u] \in {"sleep", "hook_sleep"} /\ th_wake[u] > now}}

ThreadTick ==
    /\ now < ThreadMaxTime
    /\ \E later \in ThreadClockTargets :
          /\ now' = later
          /\ th_admitted' = ThreadStillInWindow(th_admitted, later)
    /\ UNCHANGED <<max_calls, window_seconds, window_sleeps, call_history, lock, waiters,
                   next_allowed_call_time, pc, wake, admitted, wait_result,
                   pre_model_result>>
    /\ UNCHANGED <<th_module, th_history, th_lock, th_pc, th_time, th_wake,
                   th_hold_until, slept_async, slept_thread>>
    /\ UNCHANGED <<rtVars, hkVars, txVars, erVars>>

ThreadInit ==
    /\ RateLimiterInit(1..MaxCallsBound, 1..MaxWindow)
    /\ RetryNotStarted
    /\ HookNotStarted
    /\ RunnerNotStarted
    /\ TextsNotStarted
    /\ ThreadLimiterInit({"cursor_prompt_preprocessor", "multi_agent_loop"})

ThreadNext ==
    \/ \E t \in Threads : ThreadCallWaitIfNeeded(t)
    \/ \E t \in Threads : ThreadAcquire(t)
    \/ \E t \in Threads : ThreadPopleft(t)
    \/ \E t \in Threads : ThreadAppend(t)
    \/ \E t \in Threads : ThreadSleepReturns(t)
    \/ \E t \in Threads, r \in ThreadResponses : ThreadHandleRateLimit(t, r)
    \/ ThreadTick

ThreadSpec == ThreadInit /\ [][ThreadNext]_vars

\* ------------------------------------ sequential calls, one limiter each
\* One caller hands the same arrival times to an async limiter and to the
\* thread-based limiter of cursor_prompt_preprocessor, with no explicit hold
\* and nobody else calling.  Each call runs to its return.

EquivMaxTime == 14

\* wait_if_needed() of rate_limiting.py run alone from current_time: the
\* passes of its while-True loop (lines 34-57), each sleep lasting exactly
\* its duration.  The result says whether the call slept, when it returned
\* and what call_history holds then.
RECURSIVE AsyncRun(_, _, _)
AsyncRun(history, current_time, slept) ==
    LET pruned == PopOld(history, current_time) IN
    IF Len(pruned) < max_calls
    THEN [slept |-> slept, at |-> current_time,
          history |-> Append(pruned, current_time)]
    ELSE AsyncRun(pruned, current_time + WaitDuration(pruned, current_time), TRUE)

\* wait_if_needed() of cursor_prompt_preprocessor/agent.py (lines 99-123)
\* run alone from current_time.
ThreadRun(module, history, current_time) ==
    LET decision == ThreadDecision(history, current_time)
        woken == current_time + ThreadWaitTime(module, history, current_time)
    IN  CASE decision = "append" ->
               [slept |-> FALSE, at |-> current_time,
                history |-> AppendMaxlen(history, current_time)]
          [] decision = "replace" ->
               [slept |-> FALSE, at |-> current_time,
                history |-> AppendMaxlen(Tail(history), current_time)]
          [] OTHER ->
               [slept |-> TRUE, at |-> woken,
                history |-> AppendMaxlen(Tail(history), woken)]

\* The next call arrives, at some time after both limiters have returned
\* from the one before, and runs on both.
EquivArrive ==
    \E arrival \in now..EquivMaxTime :
        LET a == AsyncRun(call_history, arrival, FALSE)
            b == ThreadRun(th_module, th_history, arrival)
        IN  /\ call_history' = a.history
            /\ th_history' = b.history
            /\ slept_async' = a.slept
            /\ slept_thread' = b.slept
            /\ now' = Max(a.at, b.at)
            /\ UNCHANGED <<max_calls, window_seconds, window_sleeps, lock, waiters,
                           next_allowed_call_time, pc, wake, admitted,
                           wait_result, pre_model_result>>
            /\ UNCHANGED <<th_module, th_lock, th_pc, th_time, th_wake,
                           th_admitted, th_hold_until>>
            /\ UNCHANGED <<rtVars, hkVars, txVars, erVars>>

EquivInit ==
    /\ RateLimiterInit(1..MaxCallsBound, 1..MaxWindow)
    /\ RetryNotStarted
    /\ HookNotStarted
    /\ RunnerNotStarted
    /\ TextsNotStarted
    /\ ThreadLimiterInit({"cursor_prompt_preprocessor"})

EquivNext == EquivArrive

EquivSpec == EquivInit /\ [][EquivNext]_vars

\* ------------------------------------------------- thread-variant claims

\* C18: the thread-based and the async limiter are equivalent admission
\* controllers.  With the same max_calls and window_seconds, no explicit
\* hold and the same arrival times, a call returns without sleeping from the
\* thread-based wait_if_needed exactly when it does so from the async one,
\* also when it arrives exactly window_seconds after the oldest recorded call.
C18_SameDecisions == slept_thread = slept_async

\* C19: every synchronous variant keeps its admissions consistent under any
\* interleaving of threads: no window of window_seconds holds more than
\* max_calls admission timestamps, and every admission timestamp of the
\* trailing window is still in the history.
C19_ThreadAdmissionsConsistent ==
    /\ \A i \in DOMAIN th_admitted :
           Cardinality({j \in DOMAIN th_admitted :
                           /\ th_admitted[j] > th_admitted[i] - window_seconds
                           /\ th_admitted[j] <= th_admitted[i]}) <= max_calls
    /\ \A i \in DOMAIN th_admitted :
           th_admitted[i] > now - window_seconds =>
               Cardinality({j \in DOMAIN th_admitted : th_admitted[j] = th_admitted[i]})
                   <= Cardinality({k \in DOMAIN th_history : th_history[k] = th_admitted[i]})

\* A step in which a thread's wait_if_needed() decides to admit its call:
\* it finds room in the deque, or finds (on arrival or after its sleep) that
\* the oldest timestamp is to be replaced.
ThreadAdmissionStep ==
    \E t \in Threads :
        /\ th_pc[t] \notin {"append", "replace"}
        /\ th_pc'[t] \in {"append", "replace"}

\* C20: in the thread-based variants a detected 429 pushes out the other
\* callers.  After handle_rate_limit detects a 429 with delay d, no thread's
\* wait_if_needed() is admitted before d plus the fixed buffer has elapsed
\* since the detection.
C20_DelayPushesOutOthers ==
    [][ThreadAdmissionStep => now >= th_hold_until]_vars

\* ------------------------------ is_429_error, extract_retry_delay on texts
\* The two text functions of retry_runner.py called on their own, on error
\* texts put together from two pieces with a blank between them.  A piece
\* records which extraction pattern it is written to match (1 quoted,
\* 2 unquoted, 3 Retry-After, 0 none), the delay it spells in tenths of a
\* second, and whether it spells a rate-limit marker.

Piece(text, pattern, spelled, marker) ==
    [text |-> text, pattern |-> pattern, spelled |-> spelled, marker |-> marker]

PieceQuotedDouble ==
    Piece(<<"\"", "r", "e", "t", "r", "y", "D", "e", "l", "a", "y", "\"", ":", "\"", "3", ".", "5", "s", "\"">>, 1, 35, FALSE)
PieceQuotedSingle ==
    Piece(<<"'", "r", "e", "t", "r", "y", "D", "e", "l", "a", "y", "'", ":", " ", "'", "2", "s", "'">>, 1, 20, FALSE)
PieceQuotedNoUnit ==
    Piece(<<"\"", "r", "e", "t", "r", "y", "D", "e", "l", "a", "y", "\"", ":", "\"", "4", "\"">>, 1, 40, FALSE)
PieceQuotedInvalid ==
    Piece(<<"\"", "r", "e", "t", "r", "y", "D", "e", "l", "a", "y", "\"", ":", "\"", "i", "n", "v", "a", "l", "i", "d", "\"">>, 0, 0, FALSE)
PieceUnquoted ==
    Piece(<<"r", "e", "t", "r", "y", "D", "e", "l", "a", "y", ":", " ", "7", ".", "2">>, 2, 72, FALSE)
PieceUnquotedTight ==
    Piece(<<"r", "e", "t", "r", "y", "D", "e", "l", "a", "y", ":", "6">>, 2, 60, FALSE)
PieceRetryAfter ==
    Piece(<<"R", "e", "t", "r", "y", "-", "A", "f", "t", "e", "r", ":", " ", "1", "0">>, 3, 100, FALSE)
PieceRetryAfterLower ==
    Piece(<<"r", "e", "t", "r", "y", "-", "a", "f", "t", "e", "r", ":", " ", "1", "5">>, 3, 150, FALSE)
PieceRetryAfterWord ==
    Piece(<<"R", "e", "t", "r", "y", "-", "A", "f", "t", "e", "r", ":", " ", "s", "o", "o", "n">>, 0, 0, FALSE)
PieceHttp429 ==
    Piece(<<"H", "T", "T", "P", " ", "4", "2", "9">>, 0, 0, TRUE)
PieceExhaustedUpper ==
    Piece(<<"R", "E", "S", "O", "U", "R", "C", "E", "_", "E", "X", "H", "A", "U", "S", "T", "E", "D">>, 0, 0, TRUE)
PieceExhaustedLower ==
    Piece(<<"r", "e", "s", "o", "u", "r", "c", "e", "_", "e", "x", "h", "a", "u", "s", "t", "e", "d">>, 0, 0, TRUE)
PieceExhaustedMixed ==
    Piece(<<"R", "e", "s", "o", "u", "r", "c", "e", "_", "E", "x", "h", "a", "u", "s", "t", "e", "d">>, 0, 0, TRUE)
PieceExhaustedSpaced ==
    Piece(<<"R", "E", "S", "O", "U", "R", "C", "E", " ", "E", "X", "H", "A", "U", "S", "T", "E", "D">>, 0, 0, FALSE)
PieceTimeout ==
    Piece(<<"N", "e", "t", "w", "o", "r", "k", " ", "t", "i", "m", "e", "o", "u", "t", " ", "4", "2", ".", "9">>, 0, 0, FALSE)
PieceEmpty ==
    Piece(<<>>, 0, 0, FALSE)

Pieces == {PieceQuotedDouble, PieceQuotedSingle, PieceQuotedNoUnit,
           PieceQuotedInvalid, PieceUnquoted, PieceUnquotedTight,
           PieceRetryAfter, PieceRetryAfterLower, PieceRetryAfterWord,
           PieceHttp429, PieceExhaustedUpper, PieceExhaustedLower,
           PieceExhaustedMixed, PieceExhaustedSpaced, PieceTimeout,
           PieceEmpty}

\* The text of an error message holding piece a, a blank, and piece b.
JoinPieces(a, b) == a.text \o <<" ">> \o b.text

\* str(error): the message the exception was constructed with.
Str(exception) == exception.text

\* The argument of extract_retry_delay: a str, or None.
StrArgument(text) == [kind |-> "str", text |-> text]
NoneArgument == [kind |-> "None", text |-> <<>>]

\* How a call ended: with a return value or with an exception.
Returned(value) == [raised |-> FALSE, value |-> value]

\* error_content = str(error); is_429 = ...; return is_429, error_content
CallIs429Error ==
    /\ is_429_result = <<>>
    /\ is_429_result' = <<is_429_error(Str(error)), Str(error)>>
    /\ UNCHANGED <<error, extracted_delay>>
    /\ UNCHANGED <<rlVars, rtVars, hkVars, thVars, erVars>>

\* extract_retry_delay(argument): for a str the three searches in order; for
\* None re.search raises TypeError inside the try block, which the
\* "except Exception: pass" swallows, and the default is returned.
CallExtractRetryDelay(argument) ==
    /\ extracted_delay = <<>>
    /\ extracted_delay' =
           <<argument.kind,
             IF argument.kind = "str"
             THEN Returned(extract_retry_delay(argument.text))
             ELSE Returned(DefaultRetryDelay)>>
    /\ UNCHANGED <<error, is_429_result>>
    /\ UNCHANGED <<rlVars, rtVars, hkVars, thVars, erVars>>

TextInit ==
    /\ RateLimiterInit({1}, {1})
    /\ RetryNotStarted
    /\ HookNotStarted
    /\ RunnerNotStarted
    /\ ThreadsNotStarted
    /\ error \in {FuncError(0, JoinPieces(a, b)) : a \in Pieces, b \in Pieces}
    /\ is_429_result = <<>>
    /\ extracted_delay = <<>>

TextNext ==
    \/ CallIs429Error
    \/ \E argument \in {StrArgument(Str(error)), NoneArgument} :
           CallExtractRetryDelay(argument)

TextSpec == TextInit /\ [][TextNext]_vars

\* ---------------------------------------------------------- text claims

\* The pieces error was put together from.
PiecesOf(exception) ==
    {ab \in Pieces \X Pieces : JoinPieces(ab[1], ab[2]) = Str(exception)}

\* C21: classification.  is_429_error(e) returns (True, str(e)) when str(e)
\* contains "429" or, in any letter case, "RESOURCE_EXHAUSTED", and
\* (False, str(e)) otherwise; the text returned is str(e), and the call
\* returns a tuple for every error (it never raises).
C21_Classification ==
    is_429_result # <<>> =>
        /\ Len(is_429_result) = 2
        /\ is_429_result[2] = Str(error)
        /\ is_429_result[1] \in BOOLEAN
        /\ \A ab \in PiecesOf(error) :
               is_429_result[1] = (ab[1].marker \/ ab[2].marker)

\* C21 witness: a text with RESOURCE_EXHAUSTED in lower case and no "429"
\* was classified as rate-limit, with its text returned.
C21_Witness ==
    /\ is_429_result = <<TRUE, JoinPieces(PieceTimeout, PieceExhaustedLower)>>
    /\ error = FuncError(0, JoinPieces(PieceTimeout, PieceExhaustedLower))

\* The pattern number that decides a text made of pieces a and b: the lowest
\* pattern number above 0 among the two, 0 when neither matches any.
DecidingPattern(a, b) ==
    IF a.pattern = 0 THEN b.pattern
    ELSE IF b.pattern = 0 THEN a.pattern
    ELSE IF a.pattern <= b.pattern THEN a.pattern ELSE b.pattern

\* The delay extract_retry_delay is to return for pieces a, b: what the
\* piece of the deciding pattern spells (the left one when both are of that
\* pattern), 5.0 when no pattern matches.
SpelledDelay(a, b) ==
    IF DecidingPattern(a, b) = 0 THEN 50
    ELSE IF a.pattern = DecidingPattern(a, b) THEN a.spelled
    ELSE b.spelled

\* C22: extraction order and default.  extract_retry_delay(text) returns the
\* number captured by the first pattern that matches in the order quoted,
\* unquoted, Retry-After, wherever in the text the matches stand; for
\* "retryDelay":"<n>s" it returns n; it returns exactly 5.0 when no pattern
\* matches (a malformed value included), and it never raises.
C22_ExtractionOrder ==
    extracted_delay # <<>> =>
        /\ extracted_delay[2].raised = FALSE
        /\ extracted_delay[1] = "None" => extracted_delay[2].value = 50
        /\ extracted_delay[1] = "str" =>
               \A ab \in PiecesOf(error) :
                   extracted_delay[2].value = SpelledDelay(ab[1], ab[2])

\* C22 witness: a text with a Retry-After header first and a quoted
\* retryDelay second gave the quoted delay.
C22_Witness ==
    /\ error = FuncError(0, JoinPieces(PieceRetryAfter, PieceQuotedDouble))
    /\ extracted_delay = <<"str", Returned(35)>>

\* ------------------------------------------------- sleep/attempt alternation

\* The positions of trace at which asyncio.sleep(delay) was called.
Sleeps == {i \in DOMAIN trace : trace[i].kind = "sleep"}

\* C23: sleep/attempt alternation (max_retries >= 0).  Every sleep of
\* retry_with_simple_backoff stands directly after a failed invocation and,
\* once over, directly before the next invocation: none precedes the first
\* invocation and none follows the final failed one.  In a finished run, ended
\* by success or by exhaustion, the number of sleeps is the number of
\* invocations minus one.
C23_SleepAttemptAlternation ==
    max_retries >= 0 =>
        /\ \A i \in Sleeps :
               /\ i > 1
               /\ trace[i - 1].kind = "raise"
               /\ trace[i - 1].attempt = trace[i].attempt
               /\ i < Len(trace) =>
                      /\ trace[i + 1].kind \in {"return", "raise"}
                      /\ trace[i + 1].attempt = trace[i].attempt + 1
               /\ i = Len(trace) => rstate \in {"sleeping", "calling"}
        /\ Finished =>
               /\ Cardinality(Sleeps) = Cardinality(Invocations) - 1
               /\ trace[Len(trace)].kind # "sleep"

\* C23 witness: a run ended by exhaustion after two sleeps.
C23_Witness ==
    /\ rstate = "raised"
    /\ max_retries = 2
    /\ Cardinality(Sleeps) = 2
    /\ Cardinality(Invocations) = 3

\* ------------------------------------------------ RateLimiter claims, second part

\* Task t leaves the sleep at line 57 in this step.
WakesFromWindowSleep(t) ==
    /\ pc[t] = "sleep_window"
    /\ pc'[t] # "sleep_window" \/ wake'[t] # wake[t]

\* C24: a single wait_if_needed() call sleeps at most once for an exhausted
\* window (so the loop body runs at most twice per call).  When the sleep of
\* (oldest_timestamp + window_seconds) - now + epsilon is over, the oldest
\* timestamp is older than the window and is pruned, and the caller is
\* admitted in that loop iteration, after honouring an explicit hold if one
\* was set meanwhile.
C24_OneWindowSleepPerCall ==
    /\ [](\A t \in Tasks : window_sleeps[t] <= 1)
    /\ [][\A t \in Tasks :
            WakesFromWindowSleep(t) =>
                \/ pc'[t] = "sleep_explicit" /\ call_history' = call_history
                \/ /\ pc'[t] = "idle"
                   /\ wait_result'[t] = "returned"
                   /\ call_history[1] < now - window_seconds
                   /\ call_history' = Append(PopOld(call_history, now), now)]_vars

\* C24 witness: a call that slept once for the window has been admitted.
C24_Witness ==
    \E t \in Tasks :
        /\ window_sleeps[t] = 1
        /\ pc[t] = "idle"
        /\ wait_result[t] = "returned"
        /\ call_history # <<>>
        /\ call_history[Len(call_history)] = now

\* C25: call_history invariants.  In every reachable state call_history
\* holds at most max_calls timestamps, oldest first (non-decreasing).
\* Immediately after an admission at time t every timestamp in it lies in
\* [t - window_seconds, t] and the last one is t; when everything recorded
\* was older than the window, the history holds exactly the new call.
C25_HistoryInvariants ==
    /\ [](/\ Len(call_history) <= max_calls
          /\ \A i \in DOMAIN call_history : \A j \in DOMAIN call_history :
                 i < j => call_history[i] <= call_history[j])
    /\ [][AdmissionStep =>
            /\ call_history' # <<>>
            /\ call_history'[Len(call_history')] = now
            /\ \A i \in DOMAIN call_history' :
                   /\ call_history'[i] >= now - window_seconds
                   /\ call_history'[i] <= now
            /\ (\A i \in DOMAIN call_history :
                    call_history[i] < now - window_seconds)
                   => call_history' = <<now>>]_vars

\* C25 witness: an admission after an idle period longer than the window has
\* left exactly the new call in the history of a limiter with room for two,
\* after an earlier call had to sleep out the window.
C25_Witness ==
    /\ max_calls = 2
    /\ call_history = <<now>>
    /\ admitted = <<now>>
    /\ now > window_seconds + 2
    /\ \E t \in Tasks : window_sleeps[t] = 1

\* ------------------------------------------------ negative delays only
\* The limiter with callers of wait_if_needed() and with
\* update_next_allowed_call_time called with negative delays only, so that
\* whatever next_allowed_call_time holds was put there by such a call.  No
\* task ever reaches the sleep at line 41 here (C26), which is why the step
\* that wakes from it is no part of NegativeDelayNext.

NegativeDelays == {0 - 3, 0 - 1}

NegativeDelayNext ==
    \/ \E t \in Tasks : CallWaitIfNeeded(t)
    \/ \E t \in Tasks : RunLoop(t)
    \/ \E d \in NegativeDelays : update_next_allowed_call_time(d)
    \/ Tick

NegativeDelaySpec == LimiterInit /\ [][NegativeDelayNext]_vars

\* C26: negative delays never create a hold.  A call of
\* update_next_allowed_call_time(d) with d < 0 leaves next_allowed_call_time
\* unchanged or sets it to a time not later than the call (now + d on a
\* limiter that never had a hold, clock readings being larger than any
\* delay); so with only such calls next_allowed_call_time is never in the
\* future and no wait_if_needed() sleeps for an explicit delay.
C26_NegativeDelayNoHold ==
    /\ [](/\ next_allowed_call_time <= now
          /\ \A t \in Tasks : pc[t] # "sleep_explicit")
    /\ [][\A d \in NegativeDelays :
            update_next_allowed_call_time(d) =>
                /\ \/ next_allowed_call_time' = next_allowed_call_time
                   \/ next_allowed_call_time' <= now
                /\ (next_allowed_call_time = 0 /\ now + d >= 0) =>
                       next_allowed_call_time' = now + d]_vars

\* C26 witness: update_next_allowed_call_time(-1) has set
\* next_allowed_call_time to now - 1 and a caller was admitted at that same
\* time without waiting.
C26_Witness ==
    /\ now >= 2
    /\ next_allowed_call_time = now - 1
    /\ admitted # <<>>
    /\ admitted[Len(admitted)] = now
    /\ \A t \in Tasks : pc[t] = "idle"

\* ------------------------------------------------ concurrent callers

\* The tasks that have called wait_if_needed() and not yet run the loop.
AwaitingFirstPass == {t \in Tasks : pc[t] \in {"acquire", "loop"}}

\* A step in which task t runs its first pass of the loop: it calls with
\* the lock free, or it was handed the lock and runs.
FirstPass(t) ==
    \/ pc[t] = "idle" /\ lock = 0 /\ CallWaitIfNeeded(t)
    \/ pc[t] = "loop" /\ RunLoop(t)

\* The timestamps of history that are not older than the window at time.
InWindow(history, time) ==
    {i \in DOMAIN history : history[i] >= time - window_seconds}

\* C27: concurrent callers with free slots.  When a caller runs while no
\* explicit hold is pending and the h timestamps of the window together with
\* the k callers (itself and those still waiting for the lock) are at most
\* max_calls, it is admitted in that step without sleeping and call_history
\* afterwards holds the h timestamps and exactly one new one; so each of the
\* k calls is admitted and none is lost or duplicated.
C27_ConcurrentCallersAdmitted ==
    [][\A t \in Tasks :
        ( /\ FirstPass(t)
          /\ now >= next_allowed_call_time
          /\ Cardinality(InWindow(call_history, now))
                 + Cardinality(AwaitingFirstPass \cup {t}) <= max_calls )
        => /\ pc'[t] = "idle"
           /\ wait_result'[t] = "returned"
           /\ window_sleeps'[t] = 0
           /\ Len(call_history') = Cardinality(InWindow(call_history, now)) + 1
           /\ call_history'[Len(call_history')] = now
           /\ admitted' = Append(admitted, now)]_vars

\* C27 witness: two callers were admitted at the same instant into an empty
\* window with room for two, neither having slept.
C27_Witness ==
    /\ max_calls = 2
    /\ call_history = <<now, now>>
    /\ Len(admitted) = 2
    /\ \A t \in Tasks :
           /\ pc[t] = "idle"
           /\ wait_result[t] = "returned"
           /\ window_sleeps[t] = 0

\* Task t is suspended in one of the two sleeps of wait_if_needed().
Sleeping(t) == pc[t] \in {"sleep_explicit", "sleep_window"}

\* The admission granted in this step is task t's.
AdmissionOf(t) ==
    /\ AdmissionStep
    /\ pc'[t] = "idle"
    /\ wait_result'[t] = "returned"

\* C28: admission order follows lock-acquisition order.  From the step in
\* which a caller acquires the lock until it is admitted nobody else is
\* admitted, in particular not while it sleeps inside wait_if_needed(); the
\* lock passes on only in the step that admits its holder; and the timestamp
\* of an admission is never earlier than one granted before.
C28_AdmissionFollowsLockOrder ==
    [][ /\ \A t \in Tasks :
              (AdmissionStep /\ (lock = t \/ Sleeping(t))) => AdmissionOf(t)
        /\ \A t \in Tasks :
              (lock = t /\ lock' # t) => AdmissionOf(t)
        /\ AdmissionStep =>
              \A i \in DOMAIN call_history : call_history[i] <= now
      ]_vars

\* C28 witness: a caller that slept out the window with the lock has just
\* been admitted, and the caller that queued behind it has been handed the
\* lock and is not admitted yet.
C28_Witness ==
    \E t \in Tasks : \E u \in Tasks \ {t} :
        /\ window_sleeps[t] = 1
        /\ pc[t] = "idle"
        /\ wait_result[t] = "returned"
        /\ call_history # <<>>
        /\ call_history[Len(call_history)] = now
        /\ lock = u
        /\ pc[u] = "loop"
        /\ wait_result[u] = "pending"

\* ------------------------------------------------ EnhancedRunner.run_async
\* run_async hands _collect_events to retry_with_simple_backoff as func.
\* Each call of _collect_events starts an empty local list, appends what the
\* original runner's run_async produces, and returns the list or lets the
\* original runner's exception out.  run_async then yields the list returned.

MaxEvents == 2

\* The k-th event the original runner produces while attempt a runs.
RunnerEvent(a, k) == [attempt |-> a, index |-> k]

\* One list shared by all calls, as if "events = []" stood outside
\* _collect_events.
CollectedAcrossAttempts(all, a) == all

\* The local list "events" of the call of _collect_events made for attempt a
\* (retry_runner.py:155-157).
Collected(all, a) == SelectSeq(all, LAMBDA e : e.attempt = a)

\* async for event in self._original_runner.run_async(...): events.append(event)
OriginalYields ==
    /\ rstate = "calling"
    /\ Len(Collected(emitted, attempt)) < MaxEvents
    /\ emitted' = Append(emitted,
                         RunnerEvent(attempt, Len(Collected(emitted, attempt)) + 1))
    /\ UNCHANGED yielded
    /\ UNCHANGED <<rlVars, rtVars, hkVars, thVars, txVars>>

\* for event in events: yield event  (lines 166-167), events being the list
\* the successful call returned.
YieldEvent ==
    /\ rstate = "returned"
    /\ Len(yielded) < Len(Collected(emitted, attempt))
    /\ yielded' = Append(yielded, Collected(emitted, attempt)[Len(yielded) + 1])
    /\ UNCHANGED emitted
    /\ UNCHANGED <<rlVars, rtVars, hkVars, thVars, txVars>>

\* What the original runner raises here: one error of each kind of delay.
RunnerErrorTexts == {TextServerError, TextPlain429}

\* The jitter drawn is 0 throughout: the delays play no part in what is
\* yielded.
RunnerNext ==
    \/ StartRetry
    \/ OriginalYields
    \/ FuncReturns
    \/ \E text \in RunnerErrorTexts : FuncRaises(text, 0)
    \/ SleepReturns
    \/ YieldEvent

RunnerSpec == RetryInit /\ [][RunnerNext]_vars

\* The events the original runner produced during attempt a.
ProducedBy(a) == {i \in DOMAIN emitted : emitted[i].attempt = a}

\* C29: run_async yields only after an attempt has completed successfully.
\* Nothing is yielded while attempts run, sleep or fail, nor when the
\* exception propagates; after the successful attempt the consumer receives
\* that attempt's events in order, never one produced during a failed
\* attempt, and goes on receiving until it has all of them.
C29_YieldsOnlySuccessfulAttempt ==
    /\ rstate # "returned" => yielded = <<>>
    /\ rstate = "returned" =>
           /\ \A i \in DOMAIN yielded : yielded[i] = RunnerEvent(outcome.call, i)
           /\ Len(yielded) <= Cardinality(ProducedBy(outcome.call))
           /\ Len(yielded) < Cardinality(ProducedBy(outcome.call)) =>
                  ENABLED YieldEvent

\* C29 witness: a failed attempt produced events, the next attempt
\* succeeded, and the consumer has received the two events of that attempt.
C29_Witness ==
    /\ rstate = "returned"
    /\ outcome.call >= 1
    /\ ProducedBy(outcome.call - 1) # {}
    /\ yielded = <<RunnerEvent(outcome.call, 1), RunnerEvent(outcome.call, 2)>>

\* ------------------------------------------------ google_ai_retry_decorator
\* async_wrapper of adk_web_client_patch.py, in the variables of the retry
\* loop: max_retries and base_delay are the decorator's arguments, attempt
\* the loop variable, trace what the decorated function did and the sleeps.
\* Delays are in tenths of a second.

\* The exception the decorated function raises at invocation number call;
\* details stands for e.args[1].
DecoratedError(call, text, details) ==
    [origin |-> "func", call |-> call, text |-> text, details |-> details]

\* e.args has one element.
NoDetails == [kind |-> "absent", delay |-> 0]
\* e.args[1] names a RetryInfo delay, here "7s".
RetryInfoDetails == [kind |-> "retry_info", delay |-> 70]
\* e.args[1] is a dict whose details are no dicts: detail.get at line 29
\* raises AttributeError.
MalformedDetails == [kind |-> "malformed", delay |-> 0]

\* raise RuntimeError(f"Unexpected error in retry logic ...")  (line 115)
UnexpectedError ==
    [origin |-> "wrapper", call |-> 0, text |-> <<"R", "u", "n", "t", "i", "m", "e", "E", "r", "r", "o", "r">>]

\* The AttributeError that leaves extract_retry_delay_from_error.
HelperError ==
    [origin |-> "helper", call |-> 0, text |-> <<"A", "t", "t", "r", "i", "b", "u", "t", "e", "E", "r", "r", "o", "r">>]

ServerErrorCodes ==
    {<<"5", "0", "0">>, <<"5", "0", "2">>, <<"5", "0", "3">>, <<"5", "0", "4">>}

\* "429" in error_str and "RESOURCE_EXHAUSTED" in error_str
IsQuotaError(text) ==
    Contains(text, Str429) /\ Contains(text, StrResourceExhausted)

\* any(code in error_str for code in ["500", "502", "503", "504"])
IsServerError(text) == \E code \in ServerErrorCodes : Contains(text, code)

\* r"'retryDelay':\s*'(\d+)s'" matched at i: <<start, end>> of group 1, or <<>>
DecoratorPatternAt(text, i) ==
    LET q == SkipSpaces(text, i + Len(RetryDelayKey) + 3)
        e == SkipDigits(text, q + 1)
    IN  IF /\ CharAt(text, i) = "'"
           /\ OccursAt(text, i + 1, RetryDelayKey)
           /\ CharAt(text, i + Len(RetryDelayKey) + 1) = "'"
           /\ CharAt(text, i + Len(RetryDelayKey) + 2) = ":"
           /\ CharAt(text, q) = "'"
           /\ e > q + 1
           /\ CharAt(text, e) = "s"
           /\ CharAt(text, e + 1) = "'"
        THEN <<q + 1, e>>
        ELSE <<>>

SearchDecoratorPattern(text) ==
    IF \E i \in 1..Len(text) : DecoratorPatternAt(text, i) # <<>>
    THEN DecoratorPatternAt(text, CHOOSE i \in 1..Len(text) :
             /\ DecoratorPatternAt(text, i) # <<>>
             /\ \A k \in 1..(i - 1) : DecoratorPatternAt(text, k) = <<>>)
    ELSE <<>>

\* Lines 79-87: retry_delay, with 0 for None and for 0.0, which the tests
\* "if not retry_delay" and "if retry_delay" treat alike.
SuggestedDelay(text, details) ==
    LET m == SearchDecoratorPattern(text) IN
    IF details.kind = "retry_info" /\ details.delay # 0 THEN details.delay
    ELSE IF m # <<>> THEN 10 * IntValue(text, m[1], m[2])
    ELSE 0

\* random.uniform(0, 1): the ends of the interval
DecoratorJitter == {0, 10}

\* Lines 89-94 and line 105: the delay slept before the next attempt.
DecoratorDelay(text, details, a, jitter) ==
    IF IsQuotaError(text) /\ SuggestedDelay(text, details) # 0
    THEN SuggestedDelay(text, details) + 10
    ELSE base_delay * (2 ^ a) + jitter

\* Retrying also on the last attempt.
DecoratorLastAttemptNever(a) == a < 0

\* if attempt >= max_retries: ... raise  (lines 74 and 101)
DecoratorLastAttempt(a) == a >= max_retries

\* The error texts the decorated function raises in this model.
TextQuotaHint ==
    <<"4", "2", "9", " ", "R", "E", "S", "O", "U", "R", "C", "E", "_", "E", "X", "H", "A", "U", "S", "T", "E", "D", " ", "'", "r", "e", "t", "r", "y", "D", "e", "l", "a", "y", "'", ":", " ", "'", "3", "s", "'">>
TextQuota ==
    <<"4", "2", "9", " ", "R", "E", "S", "O", "U", "R", "C", "E", "_", "E", "X", "H", "A", "U", "S", "T", "E", "D">>
TextBadRequest ==
    <<"4", "0", "0", " ", "b", "a", "d">>

DecoratedErrors ==
    {<<TextQuotaHint, NoDetails>>, <<TextQuota, NoDetails>>,
     <<TextQuota, RetryInfoDetails>>, <<TextQuota, MalformedDetails>>,
     <<TextPlain429, NoDetails>>, <<TextLowerExhausted, NoDetails>>,
     <<TextServerError, NoDetails>>, <<TextBadRequest, NoDetails>>}

\* The for statement takes its first value, or finds the range empty and
\* control reaches line 115.
DecoratorStart ==
    /\ rstate = "start"
    /\ IF 0 \in AttemptRange
       THEN /\ rstate' = "calling"
            /\ outcome' = outcome
       ELSE /\ rstate' = "raised"
            /\ outcome' = UnexpectedError
    /\ UNCHANGED <<max_retries, base_delay, attempt, last_exception, trace>>
    /\ UNCHANGED <<rlVars, hkVars, thVars, txVars, erVars>>

\* result = await func(*args, **kwargs); return result  (lines 65-67)
DecoratedReturns ==
    /\ rstate = "calling"
    /\ trace' = Append(trace, Event("return", attempt, <<>>, 0))
    /\ outcome' = [origin |-> "result", call |-> attempt, text |-> <<>>]
    /\ rstate' = "returned"
    /\ UNCHANGED <<max_retries, base_delay, attempt, last_exception>>
    /\ UNCHANGED <<rlVars, hkVars, thVars, txVars, erVars>>

\* The decorated function raises: the except block (lines 69-112), up to a
\* bare raise, to an exception of the helper, or to the start of
\* asyncio.sleep(delay).
DecoratedRaises(text, details, jitter) ==
    /\ rstate = "calling"
    /\ IF (IsQuotaError(text) \/ IsServerError(text))
          /\ ~DecoratorLastAttempt(attempt)
       THEN IF IsQuotaError(text) /\ details.kind = "malformed"
            THEN /\ trace' = Append(trace, Event("raise", attempt, text, 0))
                 /\ rstate' = "raised"
                 /\ outcome' = HelperError
            ELSE /\ trace' = trace \o
                       <<Event("raise", attempt, text, 0),
                         Event("sleep", attempt, <<>>,
                               DecoratorDelay(text, details, attempt, jitter))>>
                 /\ rstate' = "sleeping"
                 /\ outcome' = outcome
       ELSE /\ trace' = Append(trace, Event("raise", attempt, text, 0))
            /\ rstate' = "raised"
            /\ outcome' = DecoratedError(attempt, text, details)
    /\ UNCHANGED <<max_retries, base_delay, attempt, last_exception>>
    /\ UNCHANGED <<rlVars, hkVars, thVars, txVars, erVars>>

\* asyncio.sleep(delay) returns and "continue" takes the next value of the
\* range, or finds it exhausted and control reaches line 115.
DecoratorSleepReturns ==
    /\ rstate = "sleeping"
    /\ IF attempt + 1 \in AttemptRange
       THEN /\ attempt' = attempt + 1
            /\ rstate' = "calling"
            /\ outcome' = outcome
       ELSE /\ attempt' = attempt
            /\ rstate' = "raised"
            /\ outcome' = UnexpectedError
    /\ UNCHANGED <<max_retries, base_delay, last_exception, trace>>
    /\ UNCHANGED <<rlVars, hkVars, thVars, txVars, erVars>>

\* google_ai_retry_decorator(max_retries, base_delay) applied, no call yet.
DecoratorInit == RetryInit

DecoratorNext ==
    \/ DecoratorStart
    \/ DecoratedReturns
    \/ \E e \in DecoratedErrors, jitter \in DecoratorJitter :
           DecoratedRaises(e[1], e[2], jitter)
    \/ DecoratorSleepReturns

DecoratorSpec == DecoratorInit /\ [][DecoratorNext]_vars

\* The texts the except block retries on.
RetriedText(text) == IsQuotaError(text) \/ IsServerError(text)

\* C30: for every max_retries >= 0 and every sequence of outcomes of the
\* decorated function, it is invoked at most max_retries + 1 times and the
\* RuntimeError after the loop is never raised; an error whose text is
\* neither (429 and RESOURCE_EXHAUSTED) nor has 500, 502, 503 or 504 is
\* re-raised where it first occurs: it is the last event of the run, the run
\* ends raising that very exception, and no sleep or invocation follows.
C30_LoopExitsByReturnOrReraise ==
    max_retries >= 0 =>
        /\ Cardinality(Invocations) <= max_retries + 1
        /\ outcome # UnexpectedError
        /\ \A i \in Failures :
               ~RetriedText(trace[i].text) =>
                   /\ i = Len(trace)
                   /\ rstate = "raised"
                   /\ outcome.origin = "func"
                   /\ outcome.call = trace[i].attempt
                   /\ outcome.text = trace[i].text

\* C30 witness: with two retries allowed, a 500 error is slept on, and the
\* second invocation raises "429 busy", which has no RESOURCE_EXHAUSTED: the
\* run ends there, re-raising it, with a retry still left.
C30_Witness ==
    /\ max_retries = 2
    /\ rstate = "raised"
    /\ Len(trace) = 3
    /\ trace[1].kind = "raise" /\ trace[1].text = TextServerError
    /\ trace[2].kind = "sleep"
    /\ trace[3].kind = "raise" /\ trace[3].text = TextPlain429
    /\ trace[3].attempt = 1
    /\ outcome = DecoratedError(1, TextPlain429, NoDetails)

====
